---- MODULE Spec2Model ----
(***************************************************************************)
(* Verification model of the packet classifier: RuleManager (the rule      *)
(* store), PacketClassifier (the facade) and ReadWriteLock.                *)
(*                                                                         *)
(* The specifications share the definitions below; the first three are:    *)
(*   Spec      the public API of PacketClassifier, one atomic action per   *)
(*             call, for the data path (what is stored, ordered, matched   *)
(*             and counted).  Critical sections are taken as a whole; the  *)
(*             lock protocol is the subject of SpecLock.                   *)
(*   SpecLock  the lock calls each API function makes, thread by thread,   *)
(*             on the two ReadWriteLock objects (RuleManager::rw_lock_     *)
(*             and PacketClassifier::specialized_structures_lock_).        *)
(*   SpecConc  classify and the writers interleaved at the granularity of  *)
(*             the lock-protected sections of the code.                    *)
(* The others take one object each (SpecTwin, SpecBloom, SpecTree,         *)
(* SpecTrie, SpecRW, SpecRcu, SpecPool, SpecHash, SpecMem, SpecParams);    *)
(* SpecWake adds the waits and notifications of ReadWriteLock.             *)
(***************************************************************************)
EXTENDS Integers, Sequences, FiniteSets, TLC

\* ------------------------------------------------------------------ bounds

\* match_count is a uint64_t; classify is not taken once a counter is here.
MaxCount == 1

\* The threads that call into one PacketClassifier.
NumThreads == 2

\* In SpecConc: the matches of one rule that running and new classify calls
\* may count, and the headers of one classifyBatch call.
MaxConcCount == 2

BatchLen == 2

\* Width of an address in bits (uint32_t source_ip / dest_ip, narrowed).
AddrBits == 2

\* ------------------------------------------------------------- input sets

RuleIds == {1, 2}

Priorities == {10, 20}

\* std::chrono::system_clock::now() in seconds, as classify reads it.
Times == {1}

\* ---------------------------------------------------------- PacketHeader

PacketHeader(sip, dip, sport, dport, proto) ==
    [source_ip |-> sip, dest_ip |-> dip, source_port |-> sport,
     dest_port |-> dport, protocol |-> proto]

\* The address with only its top bit set, and its neighbour.
AddrA == 2 ^ (AddrBits - 1)

AddrB == AddrA + 1

\* One header that every filter of Filters covers, and one per field that
\* differs from it in that field only.
Headers ==
    {PacketHeader(AddrA, 0, 1, 2, 6), PacketHeader(AddrB, 0, 1, 2, 6),
     PacketHeader(AddrA, 1, 1, 2, 6), PacketHeader(AddrA, 0, 4, 2, 6),
     PacketHeader(AddrA, 0, 1, 5, 6), PacketHeader(AddrA, 0, 1, 2, 17)}

\* ---------------------------------------------------------- PacketFilter

\* An IP prefix string "a.b.c.d/len" is the pair <<addr, len>>; the empty
\* string is <<>>.
NoPrefix == <<>>

PacketFilter(sip, dip, spl, sph, dpl, dph, proto) ==
    [source_ip_prefix |-> sip, dest_ip_prefix |-> dip,
     source_port_low |-> spl, source_port_high |-> sph,
     dest_port_low |-> dpl, dest_port_high |-> dph, protocol |-> proto]

FAny == PacketFilter(NoPrefix, NoPrefix, 0, 0, 0, 0, 0)

\* Source prefix AddrA/AddrBits: the one address AddrA.
FSrc == PacketFilter(<<AddrA, AddrBits>>, NoPrefix, 0, 0, 0, 0, 0)

\* Destination prefix 0/AddrBits, both port ranges and the protocol.
FRest == PacketFilter(NoPrefix, <<0, AddrBits>>, 1, 2, 2, 3, 6)

\* A source port range with low > high.
FInverted == PacketFilter(NoPrefix, NoPrefix, 2, 1, 0, 0, 0)

Filters == {FAny, FSrc, FRest}

\* PacketFilter::matches: protocol and the two port ranges; the two IP
\* prefixes are not compared with the header.
matches(f, h) ==
    IF f.protocol # 0 /\ f.protocol # h.protocol THEN FALSE
    ELSE IF (f.source_port_low # 0 \/ f.source_port_high # 0)
            /\ (h.source_port < f.source_port_low
                \/ h.source_port > f.source_port_high) THEN FALSE
    ELSE IF (f.dest_port_low # 0 \/ f.dest_port_high # 0)
            /\ (h.dest_port < f.dest_port_low
                \/ h.dest_port > f.dest_port_high) THEN FALSE
    ELSE TRUE

\* ------------------------------------------------------------ ActionList

ActionList(a, hop) == [primary_action |-> a, next_hop_id |-> hop]

DefaultActions == ActionList("DROP", -1)

Actions == {DefaultActions, ActionList("FORWARD", 5)}

\* ---------------------------------------------------- ClassificationRule

ClassificationRule(id, prio, f, a) ==
    [rule_id |-> id, priority |-> prio, filter |-> f, actions |-> a,
     enabled |-> TRUE, match_count |-> 0, last_match_time |-> 0]

\* A rule whose filter has an inverted source port range.
InvertedRule == ClassificationRule(1, 10, FInverted, DefaultActions)

\* The rules a caller passes in: built by the constructor, enabled set or
\* cleared afterwards.
InputRules ==
    {[ClassificationRule(id, p, f, a) EXCEPT !.enabled = e] :
        id \in RuleIds, p \in Priorities, f \in Filters, a \in Actions,
        e \in BOOLEAN}
    \cup {InvertedRule}

\* ---------------------------------------------------- ClassificationResult

NoMatch == [matched |-> FALSE, matched_rule_id |-> -1, actions |-> DefaultActions]

\* PacketFilter::toString: "any" for an unset field (here <<>>), the field
\* otherwise.
PacketFilter_toString(f) ==
    <<f.source_ip_prefix, f.dest_ip_prefix,
      IF f.source_port_low = 0 /\ f.source_port_high = 0 THEN <<>>
      ELSE <<f.source_port_low, f.source_port_high>>,
      IF f.dest_port_low = 0 /\ f.dest_port_high = 0 THEN <<>>
      ELSE <<f.dest_port_low, f.dest_port_high>>,
      IF f.protocol = 0 THEN <<>> ELSE <<f.protocol>> >>

VARIABLES
    rules_by_id_,             \* RuleManager: std::map<int, ClassificationRule>
    rules_by_priority_cache_, \* RuleManager: pointers into rules_by_id_
    source_ip_trie_,          \* PacketClassifier: <<prefix, rule id>> pairs
    dest_ip_trie_,
    source_port_tree_,        \* PacketClassifier: <<low, high, rule id>>
    dest_port_tree_,
    bloom_filter_,            \* PacketClassifier: the items inserted
    use_bloom_filter_,        \* PacketClassifier: constructor argument
    last,                     \* the last call made: its name, input, result
    locks,                    \* the two ReadWriteLock objects, by name
    op,                       \* per thread: the API call it is inside
    prog,                     \* per thread: the lock calls still to make
    waiting,                  \* per thread: inside writer_cv_.wait
    local,                    \* per thread: the locals of its call
    twin,                     \* a second PacketClassifier, Bloom filter enabled
    bloomFilter,              \* a BloomFilter object on its own
    intervalTree,             \* an IntervalTree object on its own
    compressedTrie,           \* a CompressedTrie object on its own
    rcuState,                 \* the threads that use RcuUtils
    threadPool,               \* a SimpleThreadPool, its workers and callers
    hashTable,                \* a ConcurrentHashTable on its own
    memoryPool,               \* a MemoryPool on its own
    hist                      \* what the callers of the object did so far

\* The objects that the specifications of the single data structures use;
\* the calls into the PacketClassifier leave them alone.
poolVars == <<threadPool, hashTable, memoryPool>>

structVars ==
    <<twin, bloomFilter, intervalTree, compressedTrie, rcuState, hist,
      poolVars>>

\* An object that is not constructed yet.
NoObject == [constructed |-> FALSE]

storeVars == <<rules_by_id_, rules_by_priority_cache_, source_ip_trie_,
               dest_ip_trie_, source_port_tree_, dest_port_tree_,
               bloom_filter_, use_bloom_filter_, structVars>>

dataVars == <<storeVars, last, local>>

lockVars == <<locks, op, prog, waiting>>

vars == <<dataVars, lockVars>>

\* ------------------------------------------------------------ RuleManager

\* The RuleManager's two members as one value.
rm_ == [rules |-> rules_by_id_, cache |-> rules_by_priority_cache_]

Perms(S) ==
    {s \in [1..Cardinality(S) -> S] :
        \A i, j \in 1..Cardinality(S) : i # j => s[i] # s[j]}

\* RuleManager::rebuildPriorityCache: one pointer per map entry, std::sort'ed
\* with the comparator a->priority > b->priority.  std::sort leaves the
\* order of elements the comparator does not separate unspecified, so every
\* arrangement sorted under the comparator is a possible outcome.
rebuildPriorityCache(rules) ==
    {s \in Perms(DOMAIN rules) :
        \A i, j \in 1..Len(s) :
            i < j => ~(rules[s[j]].priority > rules[s[i]].priority)}

\* RuleManager::detectConflict: a placeholder that returns false.
detectConflict(rm, rule) == FALSE

\* RuleManager::addRule without the rebuild of the priority cache.
RuleManager_addRule_noRebuild(rm, rule) ==
    IF rule.rule_id \in DOMAIN rm.rules THEN {[rm |-> rm, ret |-> FALSE]}
    ELSE {[rm |-> [rm EXCEPT !.rules = @ @@ (rule.rule_id :> rule)],
           ret |-> TRUE]}

\* RuleManager::addRule that replaces a stored rule of the same id.
RuleManager_addRule_overwrite(rm, rule) ==
    LET rules == (rule.rule_id :> rule) @@ rm.rules
    IN  {[rm |-> [rules |-> rules, cache |-> c], ret |-> TRUE] :
            c \in rebuildPriorityCache(rules)}

\* RuleManager::addRule: the outcomes [rm, ret].
RuleManager_addRule(rm, rule) ==
    IF rule.rule_id \in DOMAIN rm.rules THEN {[rm |-> rm, ret |-> FALSE]}
    ELSE IF detectConflict(rm, rule) THEN {[rm |-> rm, ret |-> FALSE]}
    ELSE LET rules == rm.rules @@ (rule.rule_id :> rule)
         IN  {[rm |-> [rules |-> rules, cache |-> c], ret |-> TRUE] :
                 c \in rebuildPriorityCache(rules)}

\* RuleManager::deleteRule that also clears the counters of the rules left.
RuleManager_deleteRule_clearCounters(rm, rule_id) ==
    IF rule_id \in DOMAIN rm.rules
    THEN LET rules == [i \in DOMAIN rm.rules \ {rule_id} |->
                          [rm.rules[i] EXCEPT !.match_count = 0]]
         IN  {[rm |-> [rules |-> rules, cache |-> c], ret |-> TRUE] :
                 c \in rebuildPriorityCache(rules)}
    ELSE {[rm |-> rm, ret |-> FALSE]}

\* RuleManager::deleteRule.
RuleManager_deleteRule(rm, rule_id) ==
    IF rule_id \in DOMAIN rm.rules
    THEN LET rules == [i \in DOMAIN rm.rules \ {rule_id} |-> rm.rules[i]]
         IN  {[rm |-> [rules |-> rules, cache |-> c], ret |-> TRUE] :
                 c \in rebuildPriorityCache(rules)}
    ELSE {[rm |-> rm, ret |-> FALSE]}

\* RuleManager::modifyRule without the rebuild of the priority cache.
RuleManager_modifyRule_noRebuild(rm, rule_id, new_rule_data) ==
    IF rule_id \notin DOMAIN rm.rules THEN {[rm |-> rm, ret |-> FALSE]}
    ELSE {[rm |-> [rm EXCEPT !.rules[rule_id] =
                       [new_rule_data EXCEPT !.rule_id = rule_id]],
           ret |-> TRUE]}

\* RuleManager::modifyRule that stores new_rule_data under a missing id.
RuleManager_modifyRule_upsert(rm, rule_id, new_rule_data) ==
    LET rules == (rule_id :> [new_rule_data EXCEPT !.rule_id = rule_id])
                     @@ rm.rules
    IN  {[rm |-> [rules |-> rules, cache |-> c], ret |-> TRUE] :
            c \in rebuildPriorityCache(rules)}

\* RuleManager::modifyRule that leaves new_rule_data's rule_id in the stored
\* rule.
RuleManager_modifyRule_innerId(rm, rule_id, new_rule_data) ==
    IF rule_id \notin DOMAIN rm.rules THEN {[rm |-> rm, ret |-> FALSE]}
    ELSE LET rules == [rm.rules EXCEPT ![rule_id] = new_rule_data]
         IN  {[rm |-> [rules |-> rules, cache |-> c], ret |-> TRUE] :
                 c \in rebuildPriorityCache(rules)}

\* RuleManager::modifyRule: the stored rule is assigned new_rule_data as a
\* whole, then its rule_id is set back; the cache is rebuilt when the
\* priority changed or the cache is empty.
RuleManager_modifyRule(rm, rule_id, new_rule_data) ==
    IF rule_id \notin DOMAIN rm.rules THEN {[rm |-> rm, ret |-> FALSE]}
    ELSE IF detectConflict(rm, [new_rule_data EXCEPT !.rule_id = rule_id])
    THEN {[rm |-> rm, ret |-> FALSE]}
    ELSE LET priority_changed ==
                 rm.rules[rule_id].priority # new_rule_data.priority
             rules == [rm.rules EXCEPT
                          ![rule_id] = [new_rule_data EXCEPT !.rule_id = rule_id]]
         IN  IF priority_changed \/ rm.cache = <<>>
             THEN {[rm |-> [rules |-> rules, cache |-> c], ret |-> TRUE] :
                      c \in rebuildPriorityCache(rules)}
             ELSE {[rm |-> [rules |-> rules, cache |-> rm.cache], ret |-> TRUE]}

\* RuleManager::getRule: the pointer to the map entry, or nullptr (0).
getRule(rm, rule_id) == IF rule_id \in DOMAIN rm.rules THEN rule_id ELSE 0

\* RuleManager::getRulesByPriority: a copy of the pointer vector.
getRulesByPriority(rm) == rm.cache

\* RuleManager::incrementRuleMatchCount that counts every rule.
incrementRuleMatchCount_all(rm, rule_id, timestamp) ==
    IF rule_id \in DOMAIN rm.rules
    THEN [rm |-> [rm EXCEPT !.rules =
                     [i \in DOMAIN @ |->
                         [@[i] EXCEPT !.match_count = @ + 1,
                                      !.last_match_time = timestamp]]],
          ret |-> TRUE]
    ELSE [rm |-> rm, ret |-> FALSE]

\* RuleManager::incrementRuleMatchCount.
incrementRuleMatchCount(rm, rule_id, timestamp) ==
    IF rule_id \in DOMAIN rm.rules
    THEN [rm |-> [rm EXCEPT !.rules[rule_id].match_count = @ + 1,
                            !.rules[rule_id].last_match_time = timestamp],
          ret |-> TRUE]
    ELSE [rm |-> rm, ret |-> FALSE]

\* RuleManager::resetRuleStatistics that clears every rule's counters.
RuleManager_resetRuleStatistics_all(rm, rule_id) ==
    IF rule_id \in DOMAIN rm.rules
    THEN [rm |-> [rm EXCEPT !.rules =
                     [i \in DOMAIN @ |->
                         [@[i] EXCEPT !.match_count = 0,
                                      !.last_match_time = 0]]],
          ret |-> TRUE]
    ELSE [rm |-> rm, ret |-> FALSE]

\* RuleManager::resetRuleStatistics.
RuleManager_resetRuleStatistics(rm, rule_id) ==
    IF rule_id \in DOMAIN rm.rules
    THEN [rm |-> [rm EXCEPT !.rules[rule_id].match_count = 0,
                            !.rules[rule_id].last_match_time = 0],
          ret |-> TRUE]
    ELSE [rm |-> rm, ret |-> FALSE]

\* RuleManager::resetAllRuleStatistics.
resetAllRuleStatistics(rm) ==
    [rm EXCEPT !.rules = [i \in DOMAIN rm.rules |->
                            [rm.rules[i] EXCEPT !.match_count = 0,
                                                !.last_match_time = 0]]]

\* ------------------------------------------------------- PacketClassifier

\* The derived structures of the PacketClassifier as one value.
idx_ == [source_ip_trie |-> source_ip_trie_, dest_ip_trie |-> dest_ip_trie_,
         source_port_tree |-> source_port_tree_,
         dest_port_tree |-> dest_port_tree_, bloom |-> bloom_filter_]

\* BloomFilter::insert, as the set of items inserted so far.
BloomFilter_insert(bloom, item) == bloom \cup {item}

\* PacketClassifier::updateSpecializedStructuresForRule: fails when the rule
\* is not in the RuleManager; otherwise the tries and interval trees are left
\* as they are (the inserts are comments of the source) and an enabled
\* rule's filter string goes into the Bloom filter.
updateSpecializedStructuresForRule(idx, rm, use_bloom, rule_id) ==
    IF getRule(rm, rule_id) = 0 THEN [ok |-> FALSE, idx |-> idx]
    ELSE [ok |-> TRUE,
          idx |-> IF rm.rules[rule_id].enabled /\ use_bloom
                  THEN [idx EXCEPT !.bloom = BloomFilter_insert(
                            @, PacketFilter_toString(rm.rules[rule_id].filter))]
                  ELSE idx]

\* PacketClassifier::removeRuleFromSpecializedStructures: the removals are
\* comments of the source; every path returns true.
removeRuleFromSpecializedStructures(idx, rm, rule_id) ==
    [ok |-> TRUE, idx |-> idx]

\* The Bloom filter insert that addRule and modifyRule make themselves, after
\* updateSpecializedStructuresForRule.
insertEnabledRule(idx, rm, use_bloom, rule_id) ==
    IF use_bloom /\ getRule(rm, rule_id) # 0 /\ rm.rules[rule_id].enabled
    THEN [idx EXCEPT !.bloom = BloomFilter_insert(
              @, PacketFilter_toString(rm.rules[rule_id].filter))]
    ELSE idx

\* PacketClassifier::addRule, the part after RuleManager::addRule returned
\* true: the outcome [idx, ret].
addRule_specialized(idx, rm, use_bloom, rule_id) ==
    LET u == updateSpecializedStructuresForRule(idx, rm, use_bloom, rule_id)
    IN  IF ~u.ok THEN [idx |-> u.idx, ret |-> FALSE]
        ELSE [idx |-> insertEnabledRule(u.idx, rm, use_bloom, rule_id),
              ret |-> TRUE]

\* PacketClassifier::modifyRule, the part after RuleManager::modifyRule
\* returned true.
modifyRule_specialized(idx, rm, use_bloom, rule_id) ==
    LET r == removeRuleFromSpecializedStructures(idx, rm, rule_id)
        u == updateSpecializedStructuresForRule(r.idx, rm, use_bloom, rule_id)
    IN  IF ~u.ok THEN [idx |-> u.idx, ret |-> FALSE]
        ELSE [idx |-> insertEnabledRule(u.idx, rm, use_bloom, rule_id),
              ret |-> TRUE]

\* The loop of PacketClassifier::classify without the test of rule->enabled.
firstMatch_ignoreEnabled(rules, snapshot, header) ==
    LET hits == {i \in 1..Len(snapshot) :
                    matches(rules[snapshot[i]].filter, header)}
    IN  IF hits = {} THEN 0
        ELSE CHOOSE i \in hits : \A j \in hits : i <= j

\* The loop of PacketClassifier::classify over the snapshot: the position of
\* the first rule that is enabled and whose filter matches, 0 when none.
firstMatch(rules, snapshot, header) ==
    LET hits == {i \in 1..Len(snapshot) :
                    rules[snapshot[i]].enabled
                    /\ matches(rules[snapshot[i]].filter, header)}
    IN  IF hits = {} THEN 0
        ELSE CHOOSE i \in hits : \A j \in hits : i <= j

\* PacketClassifier::classify with no other thread running: [rm, result].
classify(rm, header, epoch_time) ==
    LET snapshot == getRulesByPriority(rm)
        i == firstMatch(rm.rules, snapshot, header)
    IN  IF i = 0 THEN [rm |-> rm, result |-> NoMatch]
        ELSE LET rule == rm.rules[snapshot[i]]
             IN  [rm |-> incrementRuleMatchCount(rm, rule.rule_id, epoch_time).rm,
                  result |-> [matched |-> TRUE, matched_rule_id |-> rule.rule_id,
                              actions |-> rule.actions]]

\* PacketClassifier::getRuleStatistics.
getRuleStatistics(rm, rule_id) ==
    IF getRule(rm, rule_id) # 0 THEN rm.rules[rule_id].match_count ELSE 0

\* PacketClassifier::getStatistics.
getStatistics(rm) == [i \in DOMAIN rm.rules |-> rm.rules[i].match_count]

\* ---------------------------------------------------------- ReadWriteLock

Threads == 1..NumThreads

\* std::thread::id(): no thread.
NoThread == 0

\* ReadWriteLock::ReadWriteLock.
ReadWriteLock ==
    [active_readers_ |-> 0, waiting_writers_ |-> 0, writer_active_ |-> FALSE,
     writer_thread_id_ |-> NoThread, recursive_write_count_ |-> 0]

\* ReadWriteLock::readLock's predicate without the test of writer_active_.
readLock_ready_ignoreWriter(l) == l.waiting_writers_ = 0

\* ReadWriteLock::readLock: the predicate reader_cv_.wait returns on.
readLock_ready(l) == ~l.writer_active_ /\ l.waiting_writers_ = 0

\* ReadWriteLock::readLock: after the wait.
readLock(l) == [l EXCEPT !.active_readers_ = @ + 1]

\* ReadWriteLock::readUnlock.
readUnlock(l) == [l EXCEPT !.active_readers_ = @ - 1]

\* ReadWriteLock::writeLock: the call is a recursive one.
writeLock_recursive(l, tid) == l.writer_active_ /\ l.writer_thread_id_ = tid

\* ReadWriteLock::writeLock: the predicate writer_cv_.wait returns on.
writeLock_ready(l) == ~l.writer_active_ /\ l.active_readers_ = 0

\* ReadWriteLock::writeLock: the lock is taken (after the wait, or at once).
writeLock_take(l, tid) ==
    [l EXCEPT !.writer_active_ = TRUE, !.writer_thread_id_ = tid,
              !.recursive_write_count_ = 1]

\* ReadWriteLock::writeLock up to the wait: [l, done], done when the call
\* returns without waiting.
writeLock(l, tid) ==
    IF writeLock_recursive(l, tid)
    THEN [l |-> [l EXCEPT !.recursive_write_count_ = @ + 1], done |-> TRUE]
    ELSE IF writeLock_ready(l)
    THEN [l |-> writeLock_take(l, tid), done |-> TRUE]
    ELSE [l |-> [l EXCEPT !.waiting_writers_ = @ + 1], done |-> FALSE]

\* ReadWriteLock::writeLock from the wait on.
writeLock_wake(l, tid) ==
    writeLock_take([l EXCEPT !.waiting_writers_ = @ - 1], tid)

\* ReadWriteLock::writeUnlock that frees the lock at the first call.
writeUnlock_releaseAll(l, tid) ==
    IF ~l.writer_active_ \/ l.writer_thread_id_ # tid THEN l
    ELSE [l EXCEPT !.recursive_write_count_ = 0, !.writer_active_ = FALSE,
                   !.writer_thread_id_ = NoThread]

\* ReadWriteLock::writeUnlock.
writeUnlock(l, tid) ==
    IF ~l.writer_active_ \/ l.writer_thread_id_ # tid THEN l
    ELSE IF l.recursive_write_count_ - 1 = 0
    THEN [l EXCEPT !.recursive_write_count_ = 0, !.writer_active_ = FALSE,
                   !.writer_thread_id_ = NoThread]
    ELSE [l EXCEPT !.recursive_write_count_ = @ - 1]

\* ------------------------------------------- SpecLock: the lock calls made

\* RuleManager::rw_lock_ and PacketClassifier::specialized_structures_lock_.
LockNames == {"rw_lock_", "specialized_structures_lock_"}

\* The constructor and destructor of ReadLockGuard and of WriteLockGuard.
RL(lock) == [call |-> "readLock", lock |-> lock]

RU(lock) == [call |-> "readUnlock", lock |-> lock]

WL(lock) == [call |-> "writeLock", lock |-> lock]

WU(lock) == [call |-> "writeUnlock", lock |-> lock]

\* RuleManager::detectConflict: a ReadLockGuard on rw_lock_.
detectConflict_locks == <<RL("rw_lock_"), RU("rw_lock_")>>

\* RuleManager::getRule, getRulesByPriority, getAllRules: a ReadLockGuard.
getRule_locks == <<RL("rw_lock_"), RU("rw_lock_")>>

\* RuleManager::addRule of an id that is not stored: a WriteLockGuard on
\* rw_lock_ and, inside it, detectConflict.
RuleManager_addRule_locks ==
    <<WL("rw_lock_")>> \o detectConflict_locks \o <<WU("rw_lock_")>>

\* RuleManager::deleteRule, and modifyRule, incrementRuleMatchCount,
\* resetRuleStatistics of an id that is not stored, and
\* resetAllRuleStatistics: a WriteLockGuard and nothing inside it.
RuleManager_write_locks == <<WL("rw_lock_"), WU("rw_lock_")>>

\* PacketClassifier::updateSpecializedStructuresForRule and
\* removeRuleFromSpecializedStructures: a WriteLockGuard on the classifier's
\* lock and, inside it, getRule.
specialized_locks ==
    <<WL("specialized_structures_lock_")>> \o getRule_locks
        \o <<WU("specialized_structures_lock_")>>

\* PacketClassifier::addRule: RuleManager::addRule, then
\* updateSpecializedStructuresForRule inside a WriteLockGuard.
PacketClassifier_addRule_locks ==
    RuleManager_addRule_locks
        \o <<WL("specialized_structures_lock_")>> \o specialized_locks
        \o <<WU("specialized_structures_lock_")>>

\* PacketClassifier::deleteRule: removeRuleFromSpecializedStructures inside a
\* WriteLockGuard, then RuleManager::deleteRule.
PacketClassifier_deleteRule_locks ==
    <<WL("specialized_structures_lock_")>> \o specialized_locks
        \o <<WU("specialized_structures_lock_")>> \o RuleManager_write_locks

\* PacketClassifier::classify when no rule matches: a ReadLockGuard on the
\* classifier's lock for the whole call and getRulesByPriority inside it.
PacketClassifier_classify_locks ==
    <<RL("specialized_structures_lock_")>> \o getRule_locks
        \o <<RU("specialized_structures_lock_")>>

\* The lock calls of each API function.  No rule is ever stored in SpecLock
\* (the emplace of addRule comes after detectConflict), so every function
\* takes the path it takes on an empty store.
Script(f) ==
    CASE f = "RuleManager::addRule" -> RuleManager_addRule_locks
      [] f = "RuleManager::modifyRule" -> RuleManager_write_locks
      [] f = "RuleManager::deleteRule" -> RuleManager_write_locks
      [] f = "RuleManager::getRule" -> getRule_locks
      [] f = "PacketClassifier::addRule" -> PacketClassifier_addRule_locks
      [] f = "PacketClassifier::modifyRule" -> RuleManager_write_locks
      [] f = "PacketClassifier::deleteRule" -> PacketClassifier_deleteRule_locks
      [] f = "PacketClassifier::classify" -> PacketClassifier_classify_locks

WriteFunctions ==
    {"RuleManager::addRule", "RuleManager::modifyRule",
     "RuleManager::deleteRule", "PacketClassifier::addRule",
     "PacketClassifier::modifyRule", "PacketClassifier::deleteRule"}

Functions ==
    WriteFunctions \cup {"RuleManager::getRule", "PacketClassifier::classify"}

InitLock ==
    /\ locks = [n \in LockNames |-> ReadWriteLock]
    /\ op = [t \in Threads |-> "idle"]
    /\ prog = [t \in Threads |-> <<>>]
    /\ waiting = [t \in Threads |-> FALSE]

\* ------------------------------------------------- Spec: one call, one step

\* The members of one PacketClassifier after a call.
SetMembers(rm, idx) ==
    /\ rules_by_id_' = rm.rules
    /\ rules_by_priority_cache_' = rm.cache
    /\ source_ip_trie_' = idx.source_ip_trie
    /\ dest_ip_trie_' = idx.dest_ip_trie
    /\ source_port_tree_' = idx.source_port_tree
    /\ dest_port_tree_' = idx.dest_port_tree
    /\ bloom_filter_' = idx.bloom
    /\ UNCHANGED use_bloom_filter_

SetStore(rm, idx) == SetMembers(rm, idx) /\ UNCHANGED structVars

SetData(rm, idx) == SetStore(rm, idx) /\ UNCHANGED <<lockVars, local>>

InitData ==
    /\ rules_by_id_ = <<>>
    /\ rules_by_priority_cache_ = <<>>
    /\ source_ip_trie_ = {}
    /\ dest_ip_trie_ = {}
    /\ source_port_tree_ = {}
    /\ dest_port_tree_ = {}
    /\ bloom_filter_ = {}
    /\ use_bloom_filter_ = FALSE
    /\ last = [op |-> "init"]
    /\ local = [t \in Threads |-> [pc |-> "idle"]]

\* PacketClassifier::addRule.
AddRule(rule) ==
    \E a \in RuleManager_addRule(rm_, rule) :
        LET s == IF a.ret
                 THEN addRule_specialized(idx_, a.rm, use_bloom_filter_, rule.rule_id)
                 ELSE [idx |-> idx_, ret |-> FALSE]
        IN  /\ SetData(a.rm, s.idx)
            /\ last' = [op |-> "addRule", rule_id |-> rule.rule_id, ret |-> s.ret]

\* PacketClassifier::deleteRule.
DeleteRule(rule_id) ==
    LET r == removeRuleFromSpecializedStructures(idx_, rm_, rule_id)
    IN  \E d \in RuleManager_deleteRule(rm_, rule_id) :
            /\ SetData(d.rm, r.idx)
            /\ last' = [op |-> "deleteRule", rule_id |-> rule_id, ret |-> d.ret]

\* PacketClassifier::modifyRule.
ModifyRule(rule_id, new_rule_data) ==
    \E m \in RuleManager_modifyRule(rm_, rule_id, new_rule_data) :
        LET s == IF m.ret
                 THEN modifyRule_specialized(idx_, m.rm, use_bloom_filter_, rule_id)
                 ELSE [idx |-> idx_, ret |-> FALSE]
        IN  /\ SetData(m.rm, s.idx)
            /\ last' = [op |-> "modifyRule", rule_id |-> rule_id, ret |-> s.ret,
                        inner_id |-> new_rule_data.rule_id]

\* PacketClassifier::classify.
Classify(header, epoch_time) ==
    LET c == classify(rm_, header, epoch_time)
    IN  /\ \A i \in DOMAIN c.rm.rules : c.rm.rules[i].match_count <= MaxCount
        /\ SetData(c.rm, idx_)
        /\ last' = [op |-> "classify", header |-> header, result |-> c.result]

\* PacketClassifier::resetStatistics.
ResetStatistics ==
    /\ SetData(resetAllRuleStatistics(rm_), idx_)
    /\ last' = [op |-> "resetStatistics"]

\* PacketClassifier::resetRuleStatistics.
ResetRuleStatistics(rule_id) ==
    /\ SetData(RuleManager_resetRuleStatistics(rm_, rule_id).rm, idx_)
    /\ last' = [op |-> "resetRuleStatistics", rule_id |-> rule_id]

\* No object of the single data structures is constructed yet; the second
\* PacketClassifier is constructed with the Bloom filter enabled.
InitStruct ==
    /\ twin = [rm |-> [rules |-> <<>>, cache |-> <<>>],
               idx |-> [source_ip_trie |-> {}, dest_ip_trie |-> {},
                        source_port_tree |-> {}, dest_port_tree |-> {},
                        bloom |-> {}],
               use_bloom |-> TRUE]
    /\ bloomFilter = NoObject
    /\ intervalTree = NoObject
    /\ compressedTrie = NoObject
    /\ rcuState = NoObject
    /\ threadPool = NoObject
    /\ hashTable = NoObject
    /\ memoryPool = NoObject
    /\ hist = <<>>

Init == InitData /\ InitLock /\ InitStruct

Next ==
    \/ \E rule \in InputRules : AddRule(rule)
    \/ \E rule_id \in RuleIds : DeleteRule(rule_id)
    \/ \E rule_id \in RuleIds, new_rule_data \in InputRules :
           ModifyRule(rule_id, new_rule_data)
    \/ \E header \in Headers, epoch_time \in Times : Classify(header, epoch_time)
    \/ ResetStatistics
    \/ \E rule_id \in RuleIds : ResetRuleStatistics(rule_id)

Spec == Init /\ [][Next]_vars

\* ------------------------------------------------ SpecLock: the threads

\* The lock call thread t is at.
At(t, call) == prog[t] # <<>> /\ Head(prog[t]).call = call

\* Thread t calls API function f.
Call(t, f) ==
    /\ op[t] = "idle"
    /\ op' = [op EXCEPT ![t] = f]
    /\ prog' = [prog EXCEPT ![t] = Script(f)]
    /\ UNCHANGED <<locks, waiting, dataVars>>

\* Thread t returns from its API function.
Return(t) ==
    /\ op[t] # "idle" /\ prog[t] = <<>>
    /\ op' = [op EXCEPT ![t] = "idle"]
    /\ UNCHANGED <<locks, prog, waiting, dataVars>>

\* Thread t in readLock.
ReadLock(t) ==
    /\ At(t, "readLock")
    /\ readLock_ready(locks[Head(prog[t]).lock])
    /\ locks' = [locks EXCEPT ![Head(prog[t]).lock] = readLock(@)]
    /\ prog' = [prog EXCEPT ![t] = Tail(@)]
    /\ UNCHANGED <<op, waiting, dataVars>>

\* Thread t in readUnlock.
ReadUnlock(t) ==
    /\ At(t, "readUnlock")
    /\ locks' = [locks EXCEPT ![Head(prog[t]).lock] = readUnlock(@)]
    /\ prog' = [prog EXCEPT ![t] = Tail(@)]
    /\ UNCHANGED <<op, waiting, dataVars>>

\* Thread t enters writeLock.
WriteLock(t) ==
    /\ At(t, "writeLock") /\ ~waiting[t]
    /\ LET w == writeLock(locks[Head(prog[t]).lock], t)
       IN  /\ locks' = [locks EXCEPT ![Head(prog[t]).lock] = w.l]
           /\ prog' = [prog EXCEPT ![t] = IF w.done THEN Tail(@) ELSE @]
           /\ waiting' = [waiting EXCEPT ![t] = ~w.done]
    /\ UNCHANGED <<op, dataVars>>

\* Thread t leaves the wait of writeLock.
WriteLockWake(t) ==
    /\ At(t, "writeLock") /\ waiting[t]
    /\ writeLock_ready(locks[Head(prog[t]).lock])
    /\ locks' = [locks EXCEPT ![Head(prog[t]).lock] = writeLock_wake(@, t)]
    /\ prog' = [prog EXCEPT ![t] = Tail(@)]
    /\ waiting' = [waiting EXCEPT ![t] = FALSE]
    /\ UNCHANGED <<op, dataVars>>

\* Thread t in writeUnlock.
WriteUnlock(t) ==
    /\ At(t, "writeUnlock")
    /\ locks' = [locks EXCEPT ![Head(prog[t]).lock] = writeUnlock(@, t)]
    /\ prog' = [prog EXCEPT ![t] = Tail(@)]
    /\ UNCHANGED <<op, waiting, dataVars>>

NextLock ==
    \/ \E t \in Threads, f \in Functions : Call(t, f)
    \/ \E t \in Threads : Return(t)
    \/ \E t \in Threads : ReadLock(t)
    \/ \E t \in Threads : ReadUnlock(t)
    \/ \E t \in Threads : WriteLock(t)
    \/ \E t \in Threads : WriteLockWake(t)
    \/ \E t \in Threads : WriteUnlock(t)

SpecLock == Init /\ [][NextLock]_vars

\* Thread t waits: in reader_cv_.wait or in writer_cv_.wait with the
\* predicate false.
Blocked(t) ==
    \/ At(t, "readLock") /\ ~readLock_ready(locks[Head(prog[t]).lock])
    \/ At(t, "writeLock") /\ waiting[t]
           /\ ~writeLock_ready(locks[Head(prog[t]).lock])

\* ------------------------------------ SpecConc: calls that run concurrently

\* In SpecConc each thread runs one API call at a time, and a step is one
\* critical section of the call or one run of reads made outside every lock
\* of the RuleManager.  A section of rw_lock_ starts and ends inside its step,
\* so that lock is free between steps; of specialized_structures_lock_ the
\* reader count is kept, because classify holds it in read mode across its
\* steps.  As in Spec, detectConflict is taken to return.  The variable last
\* is not written in SpecConc: what a call returns is in local.

ConcRules ==
    {ClassificationRule(1, 10, FAny, DefaultActions),
     ClassificationRule(1, 20, FRest, ActionList("FORWARD", 5)),
     ClassificationRule(2, 10, FAny, DefaultActions)}

ConcHeaders == {PacketHeader(AddrA, 0, 1, 2, 6), PacketHeader(AddrA, 0, 1, 2, 17)}

\* The vectors of headers passed to classifyBatch.
BatchHeaders == [1..BatchLen -> ConcHeaders]

Range(s) == {s[i] : i \in 1..Len(s)}

\* The thread is inside PacketClassifier::classify, past getRulesByPriority.
InClassify(l) == l.pc \in {"loop", "matched", "increment", "unlock"}

\* The read of *p by a thread with locals l, p one of the pointers that
\* getRulesByPriority returned.  When the map entry was erased since, the
\* pointer dangles and the read is undefined: it yields what the entry held
\* when it was erased, or what any entry of the map holds now.
Deref(l, p) ==
    IF p \in DOMAIN l.freed
    THEN {l.freed[p]} \cup {rules_by_id_[q] : q \in DOMAIN rules_by_id_}
    ELSE {rules_by_id_[p]}

\* PacketClassifier::classifyBatch with no other thread running, the results
\* only: classify of each header in turn.
classifyBatch(rm, headers) ==
    [k \in 1..Len(headers) |-> classify(rm, headers[k], 1).result]

\* The classify calls that threads are inside of or, in a classifyBatch,
\* have yet to make.
Pending ==
    Cardinality({u \in Threads : InClassify(local[u])})
        + Cardinality({p \in Threads \X (1..BatchLen) :
                          /\ local[p[1]].pc = "batch"
                          /\ p[2] > Len(local[p[1]].results)})

\* What a write to the RuleManager means for another thread's call: inside
\* classify, the result classify has on the new rule set joins the results
\* (valid) that some rule set of the call's duration gives, and a pointer of
\* the call's vector to the erased entry dangles from now on.
Observe(l, rm, erased) ==
    IF l.pc = "batch"
    THEN [l EXCEPT !.valid = @ \cup {classifyBatch(rm, l.headers)}]
    ELSE IF ~InClassify(l) THEN l
    ELSE [l EXCEPT
             !.valid = @ \cup {classify(rm, l.header, 1).result},
             !.freed = IF erased \in Range(l.rules) /\ erased \notin DOMAIN @
                       THEN @ @@ (erased :> rules_by_id_[erased])
                       ELSE @]

\* Thread t goes on with locals l after it wrote rm to the RuleManager.
Wrote(t, l, rm, erased) ==
    local' = [u \in Threads |->
                 IF u = t THEN l ELSE Observe(local[u], rm, erased)]

\* PacketClassifier::classify, entry: the ReadLockGuard on
\* specialized_structures_lock_ and getRulesByPriority.
ClassifyCall(t, header) ==
    /\ op[t] = "idle" /\ prog[t] = <<>>
    /\ \A i \in DOMAIN rules_by_id_ :
           rules_by_id_[i].match_count + Pending < MaxConcCount
    /\ readLock_ready(locks["specialized_structures_lock_"])
    /\ locks' = [locks EXCEPT !["specialized_structures_lock_"] = readLock(@)]
    /\ op' = [op EXCEPT ![t] = "PacketClassifier::classify"]
    /\ local' = [local EXCEPT ![t] =
                    [pc |-> "loop", header |-> header,
                     rules |-> getRulesByPriority(rm_), i |-> 1,
                     result |-> NoMatch,
                     valid |-> {classify(rm_, header, 1).result},
                     freed |-> <<>>]]
    /\ UNCHANGED <<storeVars, last, prog, waiting>>

\* PacketClassifier::classify, one turn of the loop up to filter.matches:
\* rule->enabled and rule->filter are read through the pointer, with no lock
\* of the RuleManager held.
ClassifyLoop(t) ==
    /\ local[t].pc = "loop"
    /\ LET l == local[t]
       IN  IF l.i > Len(l.rules)
           THEN local' = [local EXCEPT ![t] = [l EXCEPT !.pc = "unlock",
                                                        !.result = NoMatch]]
           ELSE \E rule \in Deref(l, l.rules[l.i]) :
                    local' = [local EXCEPT ![t] =
                        IF rule.enabled /\ matches(rule.filter, l.header)
                        THEN [l EXCEPT !.pc = "matched"]
                        ELSE [l EXCEPT !.i = @ + 1]]
    /\ UNCHANGED <<storeVars, last, lockVars>>

\* PacketClassifier::classify, the match: rule->rule_id and rule->actions are
\* read through the pointer into the result.
ClassifyMatched(t) ==
    /\ local[t].pc = "matched"
    /\ LET l == local[t]
       IN  \E rule \in Deref(l, l.rules[l.i]) :
               local' = [local EXCEPT ![t] =
                   [l EXCEPT !.pc = "increment",
                             !.result = [matched |-> TRUE,
                                         matched_rule_id |-> rule.rule_id,
                                         actions |-> rule.actions]]]
    /\ UNCHANGED <<storeVars, last, lockVars>>

\* PacketClassifier::classify, incrementRuleMatchCount: a WriteLockGuard on
\* rw_lock_.
ClassifyIncrement(t, epoch_time) ==
    /\ local[t].pc = "increment"
    /\ LET o == incrementRuleMatchCount(
                    rm_, local[t].result.matched_rule_id, epoch_time)
       IN  /\ SetStore(o.rm, idx_)
           /\ Wrote(t, [local[t] EXCEPT !.pc = "unlock"], o.rm, 0)
    /\ UNCHANGED <<last, lockVars>>

\* PacketClassifier::classify returns: the ReadLockGuard goes.
ClassifyReturn(t) ==
    /\ local[t].pc = "unlock"
    /\ locks' = [locks EXCEPT !["specialized_structures_lock_"] = readUnlock(@)]
    /\ op' = [op EXCEPT ![t] = "idle"]
    /\ local' = [local EXCEPT ![t] = [pc |-> "idle"]]
    /\ UNCHANGED <<storeVars, last, prog, waiting>>

\* PacketClassifier::classifyBatch, entry.
ClassifyBatchCall(t, headers) ==
    /\ op[t] = "idle" /\ prog[t] = <<>>
    /\ \A i \in DOMAIN rules_by_id_ :
           rules_by_id_[i].match_count + Pending + Len(headers) <= MaxConcCount
    /\ op' = [op EXCEPT ![t] = "PacketClassifier::classifyBatch"]
    /\ local' = [local EXCEPT ![t] =
                    [pc |-> "batch", headers |-> headers, results |-> <<>>,
                     valid |-> {classifyBatch(rm_, headers)}]]
    /\ UNCHANGED <<storeVars, last, locks, prog, waiting>>

\* PacketClassifier::classifyBatch, one turn of its loop: a whole call of
\* classify, which takes and releases its ReadLockGuard and makes its own
\* call of getRulesByPriority.
ClassifyBatchNext(t, epoch_time) ==
    /\ local[t].pc = "batch"
    /\ Len(local[t].results) < Len(local[t].headers)
    /\ readLock_ready(locks["specialized_structures_lock_"])
    /\ LET c == classify(rm_, local[t].headers[Len(local[t].results) + 1],
                         epoch_time)
       IN  /\ SetStore(c.rm, idx_)
           /\ Wrote(t, [local[t] EXCEPT !.results = Append(@, c.result)],
                    c.rm, 0)
    /\ UNCHANGED <<last, lockVars>>

\* PacketClassifier::classifyBatch returns its vector of results.
ClassifyBatchReturn(t) ==
    /\ local[t].pc = "batch"
    /\ Len(local[t].results) = Len(local[t].headers)
    /\ op' = [op EXCEPT ![t] = "idle"]
    /\ local' = [local EXCEPT ![t] = [pc |-> "idle"]]
    /\ UNCHANGED <<storeVars, last, locks, prog, waiting>>

\* PacketClassifier::addRule, entry: RuleManager::addRule.
AddRuleCall(t, rule) ==
    /\ op[t] = "idle" /\ prog[t] = <<>>
    /\ op' = [op EXCEPT ![t] = "PacketClassifier::addRule"]
    /\ \E a \in RuleManager_addRule(rm_, rule) :
           /\ SetStore(a.rm, idx_)
           /\ Wrote(t, [pc |-> IF a.ret THEN "specialized" ELSE "return",
                        rule_id |-> rule.rule_id, rm_ret |-> a.ret,
                        ret |-> FALSE], a.rm, 0)
    /\ UNCHANGED <<last, locks, prog, waiting>>

\* PacketClassifier::addRule, the section under the WriteLockGuard on
\* specialized_structures_lock_.
AddRuleSpecialized(t) ==
    /\ op[t] = "PacketClassifier::addRule" /\ local[t].pc = "specialized"
    /\ writeLock_ready(locks["specialized_structures_lock_"])
    /\ LET s == addRule_specialized(idx_, rm_, use_bloom_filter_,
                                    local[t].rule_id)
       IN  /\ SetStore(rm_, s.idx)
           /\ local' = [local EXCEPT ![t] = [@ EXCEPT !.pc = "return",
                                                      !.ret = s.ret]]
    /\ UNCHANGED <<last, lockVars>>

\* PacketClassifier::modifyRule, entry: RuleManager::modifyRule.
ModifyRuleCall(t, rule_id, new_rule_data) ==
    /\ op[t] = "idle" /\ prog[t] = <<>>
    /\ op' = [op EXCEPT ![t] = "PacketClassifier::modifyRule"]
    /\ \E m \in RuleManager_modifyRule(rm_, rule_id, new_rule_data) :
           /\ SetStore(m.rm, idx_)
           /\ Wrote(t, [pc |-> IF m.ret THEN "specialized" ELSE "return",
                        rule_id |-> rule_id, rm_ret |-> m.ret,
                        ret |-> FALSE], m.rm, 0)
    /\ UNCHANGED <<last, locks, prog, waiting>>

\* PacketClassifier::modifyRule, the section under the WriteLockGuard on
\* specialized_structures_lock_.
ModifyRuleSpecialized(t) ==
    /\ op[t] = "PacketClassifier::modifyRule" /\ local[t].pc = "specialized"
    /\ writeLock_ready(locks["specialized_structures_lock_"])
    /\ LET s == modifyRule_specialized(idx_, rm_, use_bloom_filter_,
                                       local[t].rule_id)
       IN  /\ SetStore(rm_, s.idx)
           /\ local' = [local EXCEPT ![t] = [@ EXCEPT !.pc = "return",
                                                      !.ret = s.ret]]
    /\ UNCHANGED <<last, lockVars>>

\* PacketClassifier::deleteRule, entry: the section under the WriteLockGuard
\* on specialized_structures_lock_.
DeleteRuleCall(t, rule_id) ==
    /\ op[t] = "idle" /\ prog[t] = <<>>
    /\ writeLock_ready(locks["specialized_structures_lock_"])
    /\ op' = [op EXCEPT ![t] = "PacketClassifier::deleteRule"]
    /\ SetStore(rm_, removeRuleFromSpecializedStructures(idx_, rm_, rule_id).idx)
    /\ local' = [local EXCEPT ![t] =
                    [pc |-> "RuleManager", rule_id |-> rule_id,
                     rm_ret |-> FALSE, ret |-> FALSE]]
    /\ UNCHANGED <<last, locks, prog, waiting>>

\* PacketClassifier::deleteRule, RuleManager::deleteRule.
DeleteRuleRuleManager(t) ==
    /\ op[t] = "PacketClassifier::deleteRule" /\ local[t].pc = "RuleManager"
    /\ \E d \in RuleManager_deleteRule(rm_, local[t].rule_id) :
           /\ SetStore(d.rm, idx_)
           /\ Wrote(t, [local[t] EXCEPT !.pc = "return", !.rm_ret = d.ret,
                                        !.ret = d.ret],
                    d.rm, IF d.ret THEN local[t].rule_id ELSE 0)
    /\ UNCHANGED <<last, lockVars>>

\* addRule, modifyRule or deleteRule of PacketClassifier returns.
WriteReturn(t) ==
    /\ local[t].pc = "return"
    /\ op' = [op EXCEPT ![t] = "idle"]
    /\ local' = [local EXCEPT ![t] = [pc |-> "idle"]]
    /\ UNCHANGED <<storeVars, last, locks, prog, waiting>>

NextConc ==
    \/ \E t \in Threads, header \in ConcHeaders : ClassifyCall(t, header)
    \/ \E t \in Threads : ClassifyLoop(t)
    \/ \E t \in Threads : ClassifyMatched(t)
    \/ \E t \in Threads, epoch_time \in Times : ClassifyIncrement(t, epoch_time)
    \/ \E t \in Threads : ClassifyReturn(t)
    \/ \E t \in Threads, headers \in BatchHeaders : ClassifyBatchCall(t, headers)
    \/ \E t \in Threads, epoch_time \in Times : ClassifyBatchNext(t, epoch_time)
    \/ \E t \in Threads : ClassifyBatchReturn(t)
    \/ \E t \in Threads, rule \in ConcRules : AddRuleCall(t, rule)
    \/ \E t \in Threads : AddRuleSpecialized(t)
    \/ \E t \in Threads, new_rule_data \in ConcRules :
           ModifyRuleCall(t, new_rule_data.rule_id, new_rule_data)
    \/ \E t \in Threads : ModifyRuleSpecialized(t)
    \/ \E t \in Threads, rule_id \in RuleIds : DeleteRuleCall(t, rule_id)
    \/ \E t \in Threads : DeleteRuleRuleManager(t)
    \/ \E t \in Threads : WriteReturn(t)

SpecConc == Init /\ [][NextConc]_vars

\* ------------------------------------------------ the filter as specified

\* A prefix <<addr, len>> covers an address that agrees with addr on the
\* top len bits; no prefix covers every address.
Covers(prefix, addr) ==
    \/ prefix = NoPrefix
    \/ addr \div (2 ^ (AddrBits - prefix[2]))
           = prefix[1] \div (2 ^ (AddrBits - prefix[2]))

\* A port range contains a port between its ends; [0, 0] is the wildcard.
PortIn(low, high, port) ==
    \/ low = 0 /\ high = 0
    \/ low <= port /\ port <= high

\* The filter matches the header on every constrained field.
FilterCovers(f, h) ==
    /\ Covers(f.source_ip_prefix, h.source_ip)
    /\ Covers(f.dest_ip_prefix, h.dest_ip)
    /\ PortIn(f.source_port_low, f.source_port_high, h.source_port)
    /\ PortIn(f.dest_port_low, f.dest_port_high, h.dest_port)
    /\ (f.protocol = 0 \/ f.protocol = h.protocol)

\* The enabled rules of the store that M says match header h.
Candidates(M(_, _), h) ==
    {i \in DOMAIN rules_by_id_ :
        rules_by_id_[i].enabled /\ M(rules_by_id_[i].filter, h)}

\* ---------------------------------------------------------------- claims

\* C1: the result of classify(h) is that of a linear scan of the current
\* rules: matched exactly when some enabled rule covers h on every
\* constrained field (both IP prefixes, both port ranges, the protocol),
\* and then a covering enabled rule of the highest priority, with its id and
\* its actions.
C1_ClassifyIsLinearScan ==
    last.op = "classify" =>
        LET cands == Candidates(FilterCovers, last.header)
            res == last.result
        IN  IF cands = {} THEN ~res.matched
            ELSE /\ res.matched
                 /\ res.matched_rule_id \in cands
                 /\ \A j \in cands :
                        rules_by_id_[j].priority
                            <= rules_by_id_[res.matched_rule_id].priority
                 /\ res.actions = rules_by_id_[res.matched_rule_id].actions

\* The priority resolution of C3 for one reading M of "the filter matches".
PriorityResolved(M(_, _)) ==
    last.op = "classify" =>
        LET cands == Candidates(M, last.header)
            res == last.result
        IN  /\ res.matched =>
                /\ res.matched_rule_id \in DOMAIN rules_by_id_
                /\ \A j \in cands :
                       rules_by_id_[j].priority
                           <= rules_by_id_[res.matched_rule_id].priority
            /\ cands # {} => res.matched

\* C3: when classify returns rule r no enabled matching rule of the store
\* has a strictly higher priority than r, and when some enabled rule matches
\* the result is matched; the priorities are the current ones, so those a
\* successful modifyRule has stored.  It holds whether "matches" is read as
\* the specified filter (FilterCovers) or as PacketFilter::matches.
C3_PriorityResolution ==
    PriorityResolved(FilterCovers) /\ PriorityResolved(matches)

\* C3's case: classify returned a rule while another enabled rule covering
\* the header has a lower priority.
C3_Witness ==
    /\ last.op = "classify"
    /\ last.result.matched
    /\ \E j \in Candidates(FilterCovers, last.header) :
           /\ j # last.result.matched_rule_id
           /\ rules_by_id_[j].priority
                  < rules_by_id_[last.result.matched_rule_id].priority

\* C8: the source-IP trie holds exactly the (prefix, id) pairs of the enabled
\* rules that name a source prefix, and likewise the destination-IP trie and
\* the two port trees.
C8_IndexesMirrorEnabledRules ==
    LET on == {i \in DOMAIN rules_by_id_ : rules_by_id_[i].enabled}
        f(i) == rules_by_id_[i].filter
    IN  /\ source_ip_trie_ =
               {<<f(i).source_ip_prefix, i>> :
                   i \in {k \in on : f(k).source_ip_prefix # NoPrefix}}
        /\ dest_ip_trie_ =
               {<<f(i).dest_ip_prefix, i>> :
                   i \in {k \in on : f(k).dest_ip_prefix # NoPrefix}}
        /\ source_port_tree_ =
               {<<f(i).source_port_low, f(i).source_port_high, i>> :
                   i \in {k \in on : f(k).source_port_low # 0
                                     \/ f(k).source_port_high # 0}}
        /\ dest_port_tree_ =
               {<<f(i).dest_port_low, f(i).dest_port_high, i>> :
                   i \in {k \in on : f(k).dest_port_low # 0
                                     \/ f(k).dest_port_high # 0}}

\* C9: for a rule that stays in the store, getRuleStatistics never decreases
\* over a call other than resetStatistics and resetRuleStatistics of it.
C9_MatchCountMonotone ==
    [][\A i \in DOMAIN rules_by_id_ \cap DOMAIN rules_by_id_' :
          (/\ last'.op # "resetStatistics"
           /\ ~(last'.op = "resetRuleStatistics" /\ last'.rule_id = i))
          => getRuleStatistics(rm_', i) >= getRuleStatistics(rm_, i)]_vars

\* C10: the priority view is sorted by descending priority with rules of
\* equal priority in ascending id order, and among the enabled matching
\* rules of the highest priority classify returns the smallest id.
C10_SortedTiesById ==
    /\ \A i, j \in 1..Len(rules_by_priority_cache_) :
           i < j =>
               LET a == rules_by_id_[rules_by_priority_cache_[i]]
                   b == rules_by_id_[rules_by_priority_cache_[j]]
               IN  \/ a.priority > b.priority
                   \/ a.priority = b.priority /\ a.rule_id < b.rule_id
    /\ (last.op = "classify" /\ last.result.matched) =>
           \A j \in Candidates(matches, last.header) :
               rules_by_id_[j].priority
                       = rules_by_id_[last.result.matched_rule_id].priority
                   => last.result.matched_rule_id <= j

\* C2: a call of addRule, modifyRule or deleteRule that runs with no other
\* thread inside the classifier never waits (so it runs to completion), and
\* a thread that is in no call holds no write lock.
C2_WritesRunToCompletion ==
    /\ \A t \in Threads :
           (op[t] \in WriteFunctions /\ \A u \in Threads \ {t} : op[u] = "idle")
               => ~Blocked(t)
    /\ \A t \in Threads :
           op[t] = "idle" =>
               \A n \in LockNames : locks[n].writer_thread_id_ # t

\* C6: a thread inside classify waits for no lock, whatever call the other
\* threads are inside of.
C6_ClassifyNeverBlocks ==
    \A t \in Threads : op[t] = "PacketClassifier::classify" => ~Blocked(t)

\* C4: the result a classify call has computed is the result classify has on
\* one of the rule sets that existed between its getRulesByPriority and now
\* (the rule set before or after each concurrent write), never a mixture.
C4_ClassifyPreOrPostState ==
    \A t \in Threads :
        local[t].pc \in {"increment", "unlock"} =>
            local[t].result \in local[t].valid

\* C5: classify never reads a rule through a pointer of getRulesByPriority
\* whose map entry a deleteRule has erased since.
C5_ReferencesStayValid ==
    \A t \in Threads :
        (local[t].pc \in {"loop", "matched"} /\ local[t].i <= Len(local[t].rules))
            => local[t].rules[local[t].i] \notin DOMAIN local[t].freed

\* C7: a write of PacketClassifier that is about to return false has made no
\* change to the rule store (its RuleManager call did not succeed), and of
\* two addRule calls with one id that overlap at most one is about to return
\* true.
C7_FailedWriteHasNoEffect ==
    /\ \A t \in Threads :
           (local[t].pc = "return" /\ ~local[t].ret) => ~local[t].rm_ret
    /\ \A t, u \in Threads :
           (/\ t # u
            /\ op[t] = "PacketClassifier::addRule" /\ local[t].pc = "return"
            /\ op[u] = "PacketClassifier::addRule" /\ local[u].pc = "return"
            /\ local[t].rule_id = local[u].rule_id)
               => ~(local[t].ret /\ local[u].ret)

\* C11: the priority view holds every id of the store exactly once and
\* nothing else (its entries are pointers to the stored rules, so they show
\* the current fields), and each stored rule sits under its own rule_id.
C11_ViewIsTheStore ==
    /\ Range(rules_by_priority_cache_) = DOMAIN rules_by_id_
    /\ Len(rules_by_priority_cache_) = Cardinality(DOMAIN rules_by_id_)
    /\ \A i \in DOMAIN rules_by_id_ : rules_by_id_[i].rule_id = i
    /\ getRulesByPriority(rm_) = rules_by_priority_cache_

\* C11's case: two rules are stored and the last call changed one of them
\* or the membership.
C11_Witness ==
    /\ last.op \in {"modifyRule", "deleteRule", "addRule"} /\ last.ret
    /\ \E i, j \in DOMAIN rules_by_id_ :
           rules_by_id_[i].priority < rules_by_id_[j].priority

\* C12: classify never returns a rule that is disabled and leaves every
\* disabled rule as it is, counters included.
C12_DisabledNeverMatches ==
    [][last'.op = "classify" =>
          \A i \in DOMAIN rules_by_id_ :
              ~rules_by_id_[i].enabled =>
                  /\ ~(last'.result.matched /\ last'.result.matched_rule_id = i)
                  /\ i \in DOMAIN rules_by_id_'
                  /\ rules_by_id_'[i] = rules_by_id_[i]]_vars

\* C12's case: classify ran on a header that a disabled rule's filter
\* matches, the rule having been disabled by modifyRule or added so, and
\* that rule is of the highest priority in the store.
C12_Witness ==
    /\ last.op = "classify"
    /\ \E i \in DOMAIN rules_by_id_ :
           /\ ~rules_by_id_[i].enabled
           /\ matches(rules_by_id_[i].filter, last.header)
           /\ \A j \in DOMAIN rules_by_id_ :
                  rules_by_id_[j].priority <= rules_by_id_[i].priority

\* C13: addRule of an id that is stored returns false and leaves the rule
\* map, so every field and counter of the stored rule, and the priority view
\* as they were.
C13_DuplicateAddRejected ==
    [][(last'.op = "addRule" /\ last'.rule_id \in DOMAIN rules_by_id_) =>
          /\ ~last'.ret
          /\ rules_by_id_' = rules_by_id_
          /\ rules_by_priority_cache_' = rules_by_priority_cache_]_vars

\* C13's case: an addRule failed on a stored id whose rule has a match.
C13_Witness ==
    /\ last.op = "addRule" /\ ~last.ret
    /\ last.rule_id \in DOMAIN rules_by_id_
    /\ rules_by_id_[last.rule_id].match_count > 0

\* C14: deleteRule and modifyRule of an id that is not stored return false,
\* resetRuleStatistics of it does nothing, the rule map and the priority
\* view stay as they were in each case, and getRuleStatistics of it is 0.
C14_MissingIdFailsBenignly ==
    [][/\ (/\ last'.op \in {"deleteRule", "modifyRule", "resetRuleStatistics"}
           /\ last'.rule_id \notin DOMAIN rules_by_id_)
              => /\ rm_' = rm_
                 /\ last'.op # "resetRuleStatistics" => ~last'.ret
       /\ \A id \in RuleIds \ DOMAIN rules_by_id_ :
              getRuleStatistics(rm_, id) = 0]_vars

\* C14's case: a modifyRule or deleteRule failed while another rule, with a
\* match counted, is stored.
C14_Witness ==
    /\ last.op \in {"deleteRule", "modifyRule"} /\ ~last.ret
    /\ last.rule_id \notin DOMAIN rules_by_id_
    /\ \E j \in DOMAIN rules_by_id_ : rules_by_id_[j].match_count > 0

\* C15: no stored rule has a source or destination port range with
\* low > high.
C15_NoInvertedRangeStored ==
    \A i \in DOMAIN rules_by_id_ :
        /\ rules_by_id_[i].filter.source_port_low
               <= rules_by_id_[i].filter.source_port_high
        /\ rules_by_id_[i].filter.dest_port_low
               <= rules_by_id_[i].filter.dest_port_high

\* C16: from any state, modifyRule(id, r) of a stored id succeeds and leaves
\* under id a rule with r's priority, filter, actions and enabled flag and
\* with rule_id id, the ids of the store are those of before, so none is
\* created for r.rule_id, and every other rule is as it was.
C16_ModifyKeepsOuterId ==
    \A id \in DOMAIN rules_by_id_, r \in InputRules :
        \A m \in RuleManager_modifyRule(rm_, id, r) :
            /\ m.ret
            /\ m.rm.rules[id].priority = r.priority
            /\ m.rm.rules[id].filter = r.filter
            /\ m.rm.rules[id].actions = r.actions
            /\ m.rm.rules[id].enabled = r.enabled
            /\ m.rm.rules[id].rule_id = id
            /\ DOMAIN m.rm.rules = DOMAIN rules_by_id_
            /\ \A j \in DOMAIN rules_by_id_ \ {id} :
                   m.rm.rules[j] = rules_by_id_[j]

\* C16's case: a modifyRule succeeded with new_rule_data naming another id,
\* which is not stored, and a second rule is stored.
C16_Witness ==
    /\ last.op = "modifyRule" /\ last.ret
    /\ last.inner_id # last.rule_id
    /\ last.inner_id \notin DOMAIN rules_by_id_

C19_ResetOnlyClearsCounters ==
    [][last'.op \in {"resetStatistics", "resetRuleStatistics"} =>
          /\ DOMAIN rules_by_id_' = DOMAIN rules_by_id_
          /\ rules_by_priority_cache_' = rules_by_priority_cache_
          /\ \A i \in DOMAIN rules_by_id_ :
                 LET cleared == last'.op = "resetStatistics"
                                    \/ last'.rule_id = i
                 IN  rules_by_id_'[i] =
                         IF cleared
                         THEN [rules_by_id_[i] EXCEPT !.match_count = 0,
                                                      !.last_match_time = 0]
                         ELSE rules_by_id_[i]]_vars

\* C19's case: resetRuleStatistics of a stored rule, while another rule
\* keeps a match counted.
C19_Witness ==
    /\ last.op = "resetRuleStatistics"
    /\ last.rule_id \in DOMAIN rules_by_id_
    /\ \E j \in DOMAIN rules_by_id_ \ {last.rule_id} :
           rules_by_id_[j].match_count > 0

\* A step of thread t inside classify (Observe changes neither pc nor i).
ClassifyStep(t) ==
    /\ InClassify(local[t]) \/ InClassify(local'[t])
    /\ \/ local'[t].pc # local[t].pc
       \/ local'[t].i # local[t].i

\* C18: the step of classify that counts the match of rule r, whatever the
\* other threads are inside of, adds exactly 1 to r's match_count, sets r's
\* last_match_time and changes no other rule and no other field; every other
\* step of a classify call, so every step of one that matches nothing, leaves
\* the rule map and the priority view as they are.
C18_ClassifyCountsOnlyItsMatch ==
    [][\A t \in Threads :
          ClassifyStep(t) =>
              /\ rules_by_priority_cache_' = rules_by_priority_cache_
              /\ DOMAIN rules_by_id_' = DOMAIN rules_by_id_
              /\ LET counted == IF local[t].pc = "increment"
                                THEN {local[t].result.matched_rule_id}
                                ELSE {}
                 IN  \A i \in DOMAIN rules_by_id_ :
                         IF i \in counted
                         THEN \E time \in Times :
                                  rules_by_id_'[i] =
                                      [rules_by_id_[i] EXCEPT
                                          !.match_count = @ + 1,
                                          !.last_match_time = time]
                         ELSE rules_by_id_'[i] = rules_by_id_[i]]_vars

\* C18's case: two threads are inside classify at the same time, both have
\* counted their match of the same rule, which has two matches counted, and
\* another rule is stored.
C18_Witness ==
    \E t, u \in Threads :
        /\ t # u
        /\ local[t].pc = "unlock" /\ local[t].result.matched
        /\ local[u].pc = "unlock" /\ local[u].result.matched
        /\ local[t].result.matched_rule_id = local[u].result.matched_rule_id
        /\ local[t].result.matched_rule_id \in DOMAIN rules_by_id_
        /\ rules_by_id_[local[t].result.matched_rule_id].match_count = 2
        /\ Cardinality(DOMAIN rules_by_id_) = 2

\* C20: the results of a classifyBatch call are those that classifyBatch has
\* on one rule set, one that existed between the entry of the call and now.
C20_BatchOnOneSnapshot ==
    \A t \in Threads :
        (local[t].pc = "batch"
             /\ Len(local[t].results) = Len(local[t].headers))
            => local[t].results \in local[t].valid

\* ------------------------------ SpecTwin: with and without the Bloom filter

\* PacketHeader::toString; no PacketFilter::toString string equals one.
PacketHeader_toString(h) ==
    <<"SrcIP", h.source_ip, h.dest_ip, h.source_port, h.dest_port, h.protocol>>

\* BloomFilter::possiblyContains on the items inserted so far: true for an
\* inserted item, either answer for another one (its bits may all be set).
possiblyContains_items(items, item) ==
    IF item \in items THEN {TRUE} ELSE BOOLEAN

\* The answers of the Bloom filter that PacketClassifier::classify may get.
classify_hints(idx, use_bloom, header) ==
    IF use_bloom
    THEN possiblyContains_items(idx.bloom, PacketHeader_toString(header))
    ELSE {TRUE}

\* PacketClassifier::classify that returns no match on a negative answer of
\* the Bloom filter.
PacketClassifier_classify_shortCircuit(rm, idx, use_bloom, header, epoch_time) ==
    {IF hint THEN [rm |-> classify(rm, header, epoch_time).rm,
                   result |-> classify(rm, header, epoch_time).result,
                   hint |-> hint]
     ELSE [rm |-> rm, result |-> NoMatch, hint |-> hint] :
        hint \in classify_hints(idx, use_bloom, header)}

\* PacketClassifier::classify with its look into the Bloom filter: a
\* negative answer is logged and the rules are scanned all the same.
PacketClassifier_classify(rm, idx, use_bloom, header, epoch_time) ==
    {[rm |-> classify(rm, header, epoch_time).rm,
      result |-> classify(rm, header, epoch_time).result,
      hint |-> hint] :
        hint \in classify_hints(idx, use_bloom, header)}

\* PacketClassifier::addRule: the outcomes [rm, idx, ret].
PacketClassifier_addRule(rm, idx, use_bloom, rule) ==
    {LET s == IF a.ret
              THEN addRule_specialized(idx, a.rm, use_bloom, rule.rule_id)
              ELSE [idx |-> idx, ret |-> FALSE]
     IN  [rm |-> a.rm, idx |-> s.idx, ret |-> s.ret] :
        a \in RuleManager_addRule(rm, rule)}

\* PacketClassifier::deleteRule.
PacketClassifier_deleteRule(rm, idx, rule_id) ==
    {[rm |-> d.rm,
      idx |-> removeRuleFromSpecializedStructures(idx, rm, rule_id).idx,
      ret |-> d.ret] :
        d \in RuleManager_deleteRule(rm, rule_id)}

\* PacketClassifier::modifyRule.
PacketClassifier_modifyRule(rm, idx, use_bloom, rule_id, new_rule_data) ==
    {LET s == IF m.ret
              THEN modifyRule_specialized(idx, m.rm, use_bloom, rule_id)
              ELSE [idx |-> idx, ret |-> FALSE]
     IN  [rm |-> m.rm, idx |-> s.idx, ret |-> s.ret] :
        m \in RuleManager_modifyRule(rm, rule_id, new_rule_data)}

\* The rules and headers passed to the two classifiers.
TwinRules ==
    ConcRules
    \cup {[ClassificationRule(2, 20, FSrc, DefaultActions) EXCEPT !.enabled = FALSE]}

TwinHeaders == ConcHeaders

\* std::sort is a function of its input: two RuleManagers that hold the same
\* rules have sorted them into the same order.
SameSort(rm1, rm2) == rm1.rules = rm2.rules => rm1.cache = rm2.cache

\* After one call made on both classifiers: x on the one without, y on the
\* one with the Bloom filter.
SetTwin(x, y) ==
    /\ SameSort(x.rm, y.rm)
    /\ SetMembers(x.rm, x.idx)
    /\ twin' = [twin EXCEPT !.rm = y.rm, !.idx = y.idx]
    /\ UNCHANGED <<bloomFilter, intervalTree, compressedTrie, rcuState, hist,
                   lockVars, local, poolVars>>

TwinAddRule(rule) ==
    \E x \in PacketClassifier_addRule(rm_, idx_, use_bloom_filter_, rule),
       y \in PacketClassifier_addRule(twin.rm, twin.idx, twin.use_bloom, rule) :
        /\ SetTwin(x, y)
        /\ last' = [op |-> "addRule", rule_id |-> rule.rule_id,
                    ret |-> x.ret, twin_ret |-> y.ret]

TwinDeleteRule(rule_id) ==
    \E x \in PacketClassifier_deleteRule(rm_, idx_, rule_id),
       y \in PacketClassifier_deleteRule(twin.rm, twin.idx, rule_id) :
        /\ SetTwin(x, y)
        /\ last' = [op |-> "deleteRule", rule_id |-> rule_id,
                    ret |-> x.ret, twin_ret |-> y.ret]

TwinModifyRule(rule_id, new_rule_data) ==
    \E x \in PacketClassifier_modifyRule(rm_, idx_, use_bloom_filter_,
                                         rule_id, new_rule_data),
       y \in PacketClassifier_modifyRule(twin.rm, twin.idx, twin.use_bloom,
                                         rule_id, new_rule_data) :
        /\ SetTwin(x, y)
        /\ last' = [op |-> "modifyRule", rule_id |-> rule_id,
                    ret |-> x.ret, twin_ret |-> y.ret]

TwinClassify(header, epoch_time) ==
    \E x \in PacketClassifier_classify(rm_, idx_, use_bloom_filter_,
                                       header, epoch_time),
       y \in PacketClassifier_classify(twin.rm, twin.idx, twin.use_bloom,
                                       header, epoch_time) :
        /\ \A i \in DOMAIN x.rm.rules : x.rm.rules[i].match_count <= MaxCount
        /\ \A i \in DOMAIN y.rm.rules : y.rm.rules[i].match_count <= MaxCount
        /\ SetTwin([rm |-> x.rm, idx |-> idx_], [rm |-> y.rm, idx |-> twin.idx])
        /\ last' = [op |-> "classify", header |-> header,
                    ret |-> x.result, twin_ret |-> y.result,
                    twin_hint |-> y.hint]

NextTwin ==
    \/ \E rule \in TwinRules : TwinAddRule(rule)
    \/ \E rule_id \in RuleIds : TwinDeleteRule(rule_id)
    \/ \E rule_id \in RuleIds, new_rule_data \in TwinRules :
           TwinModifyRule(rule_id, new_rule_data)
    \/ \E header \in TwinHeaders, epoch_time \in Times :
           TwinClassify(header, epoch_time)

SpecTwin == Init /\ [][NextTwin]_vars

\* C21: a PacketClassifier built with the Bloom filter enabled returns, call
\* by call over the same sequence of addRule, modifyRule, deleteRule and
\* classify, what one built without it returns, and holds the same
\* statistics (RuleManager::detectConflict taken to return).
C21_BloomOnlyHints ==
    /\ last.op # "init" => last.ret = last.twin_ret
    /\ getStatistics(rm_) = getStatistics(twin.rm)
    /\ \A rule_id \in RuleIds :
           getRuleStatistics(rm_, rule_id) = getRuleStatistics(twin.rm, rule_id)

\* The Bloom filter holds a rule, it answered "not present" for a packet,
\* and the packet matched a rule in both classifiers.
C21_Witness ==
    /\ twin.idx.bloom # {}
    /\ last.op = "classify"
    /\ ~last.twin_hint
    /\ last.twin_ret.matched
    /\ last.ret.matched

\* ------------------------------------------- SpecBloom: one BloomFilter

\* The sizes and numbers of hash functions passed to BloomFilter(size,
\* num_hashes); 0 takes the constructor's default.
MaxBits == 3

MaxHashes == 3

\* The calls of insert made on one filter (current_insertions is a uint64_t).
MaxInsertions == 3

\* The values std::hash<std::string> takes on the items.
MaxStdHash == 2

\* The items, as byte strings.
Items == {<<>>, <<1>>, <<1, 2>>}

\* BloomFilter::BloomFilter(uint64_t size, int num_hashes); bit_array is
\* the set of the indexes whose bit is set.
BloomFilter_BloomFilter(size, num_hashes) ==
    [constructed |-> TRUE,
     bit_array_size |-> IF size = 0 THEN 1024 ELSE size,
     num_hash_functions |-> IF num_hashes <= 0 THEN 3 ELSE num_hashes,
     bit_array |-> {},
     current_insertions |-> 0]

\* BloomFilter::hashFunction2 (DJB2); no item is long enough to wrap 64 bits.
RECURSIVE hashFunction2(_)
hashFunction2(data) ==
    IF data = <<>> THEN 5381
    ELSE hashFunction2(SubSeq(data, 1, Len(data) - 1)) * 33 + data[Len(data)]

\* BloomFilter::hash: the k indexes of an item; h1 is hashFunction1, the
\* std::hash of the build.
BloomFilter_hash(bf, h1, data) ==
    IF bf.num_hash_functions = 0 \/ bf.bit_array_size = 0 THEN <<>>
    ELSE LET h2 == IF bf.num_hash_functions > 1 THEN hashFunction2(data) ELSE 0
         IN  [n \in 1..bf.num_hash_functions |->
                 LET i == n - 1
                 IN  IF i = 0 THEN h1 % bf.bit_array_size
                     ELSE IF i = 1 /\ bf.num_hash_functions > 1
                     THEN h2 % bf.bit_array_size
                     ELSE (h1 + i * (h2 + i + 1)) % bf.bit_array_size]

\* BloomFilter::insert that sets the bit of the first hash value only.
BloomFilter_insertBits_firstOnly(bf, h1, data) ==
    IF bf.bit_array_size = 0 THEN bf
    ELSE [bf EXCEPT !.bit_array = @ \cup {BloomFilter_hash(bf, h1, data)[1]},
                    !.current_insertions = @ + 1]

\* BloomFilter::insert.
BloomFilter_insertBits(bf, h1, data) ==
    IF bf.bit_array_size = 0 THEN bf
    ELSE [bf EXCEPT !.bit_array = @ \cup Range(BloomFilter_hash(bf, h1, data)),
                    !.current_insertions = @ + 1]

\* BloomFilter::possiblyContains.
BloomFilter_possiblyContains(bf, h1, data) ==
    IF bf.bit_array_size = 0 THEN FALSE
    ELSE \A h_val \in Range(BloomFilter_hash(bf, h1, data)) :
             h_val \in bf.bit_array

BloomUnchanged ==
    UNCHANGED <<rules_by_id_, rules_by_priority_cache_, source_ip_trie_,
                dest_ip_trie_, source_port_tree_, dest_port_tree_,
                bloom_filter_, use_bloom_filter_, twin, intervalTree,
                compressedTrie, rcuState, lockVars, local, poolVars>>

\* The constructor; hist holds the std::hash of the build and the items
\* inserted so far.
BloomConstruct(size, num_hashes, std_hash) ==
    /\ ~bloomFilter.constructed
    /\ bloomFilter' = BloomFilter_BloomFilter(size, num_hashes)
    /\ hist' = [std_hash |-> std_hash, inserted |-> {}]
    /\ last' = [op |-> "BloomFilter", size |-> size, num_hashes |-> num_hashes]
    /\ BloomUnchanged

BloomInsert(item) ==
    /\ bloomFilter.constructed
    /\ bloomFilter.current_insertions < MaxInsertions
    /\ bloomFilter' = BloomFilter_insertBits(bloomFilter, hist.std_hash[item], item)
    /\ hist' = [hist EXCEPT !.inserted = @ \cup {item}]
    /\ last' = [op |-> "insert", item |-> item]
    /\ BloomUnchanged

BloomPossiblyContains(item) ==
    /\ bloomFilter.constructed
    /\ last' = [op |-> "possiblyContains", item |-> item,
                ret |-> BloomFilter_possiblyContains(
                            bloomFilter, hist.std_hash[item], item)]
    /\ UNCHANGED <<bloomFilter, hist>>
    /\ BloomUnchanged

NextBloom ==
    \/ \E size \in 0..MaxBits, num_hashes \in 0..MaxHashes,
          std_hash \in [Items -> 0..MaxStdHash] :
           BloomConstruct(size, num_hashes, std_hash)
    \/ \E item \in Items : BloomInsert(item)
    \/ \E item \in Items : BloomPossiblyContains(item)

SpecBloom == Init /\ [][NextBloom]_vars

\* C22: in a BloomFilter of any size and number of hash functions,
\* possiblyContains is true for every item inserted so far, and false for
\* every item while nothing was inserted.
C22_NoFalseNegative ==
    bloomFilter.constructed =>
        /\ \A x \in hist.inserted :
               BloomFilter_possiblyContains(bloomFilter, hist.std_hash[x], x)
        /\ hist.inserted = {} =>
               \A x \in Items :
                   ~BloomFilter_possiblyContains(bloomFilter, hist.std_hash[x], x)
        /\ last.op = "possiblyContains" =>
               /\ last.item \in hist.inserted => last.ret
               /\ hist.inserted = {} => ~last.ret

\* Two items are in the filter, a third one is reported absent, and the
\* last call reported an inserted item present through several bits.
C22_Witness ==
    /\ bloomFilter.constructed
    /\ Cardinality(hist.inserted) = 2
    /\ Cardinality(bloomFilter.bit_array) >= 2
    /\ \E x \in Items \ hist.inserted :
           ~BloomFilter_possiblyContains(bloomFilter, hist.std_hash[x], x)
    /\ last.op = "possiblyContains" /\ last.item \in hist.inserted /\ last.ret

\* ------------------------------------------- SpecTree: one IntervalTree

\* The largest endpoint of an interval and of a query.
MaxPort == 3

\* The nodes one tree holds at most.
MaxNodes == 4

Interval(l, h, d) == [low |-> l, high |-> h, data_id |-> d]

\* The intervals passed to insert and remove: three ranges, two of them with
\* the same low endpoint and one that starts later and ends earlier than
\* another, each under two ids, and one with low > high.
TreeIntervals ==
    {Interval(r[1], r[2], d) :
        r \in {<<1, 2>>, <<1, MaxPort>>, <<2, 2>>}, d \in RuleIds}
    \cup {Interval(MaxPort, 1, 1)}

\* The queries made: every point, and a range below, inside, across and
\* with low > high.
TreePoints == 0..MaxPort + 1

TreeRanges == {<<0, 0>>, <<2, 2>>, <<1, MaxPort>>, <<MaxPort, 1>>}

\* A null std::unique_ptr<IntervalNode>, and the tree of a process that a
\* read through a null pointer has ended.
Nil == [height |-> 0]

Crashed == [height |-> -1]

IsNil(node) == node.height = 0

IsCrashed(node) == node.height = -1

Max(a, b) == IF a >= b THEN a ELSE b

\* IntervalNode::IntervalNode.
IntervalNode(i) ==
    [interval |-> i, max_high |-> i.high, left |-> Nil, right |-> Nil,
     height |-> 1]

\* IntervalNode::updateMaxHigh.
updateMaxHigh(node) ==
    LET own == node.interval.high
        l == IF IsNil(node.left) THEN own ELSE Max(own, node.left.max_high)
        r == IF IsNil(node.right) THEN l ELSE Max(l, node.right.max_high)
    IN  [node EXCEPT !.max_high = r]

getHeight(node) == node.height

updateNodeHeight(node) ==
    [node EXCEPT !.height = 1 + Max(getHeight(node.left), getHeight(node.right))]

getBalanceFactor(node) ==
    IF IsNil(node) THEN 0 ELSE getHeight(node.left) - getHeight(node.right)

\* rotateRight without the updateMaxHigh of the node that moved down.
rotateRight_staleMaxHigh(y) ==
    IF IsNil(y.left) THEN Crashed
    ELSE LET x == y.left
             y2 == updateNodeHeight([y EXCEPT !.left = x.right])
         IN  updateMaxHigh(updateNodeHeight([x EXCEPT !.right = y2]))

\* IntervalTree::rotateRight; y->left is dereferenced unchecked.
rotateRight(y) ==
    IF IsNil(y.left) THEN Crashed
    ELSE LET x == y.left
             y2 == updateMaxHigh(updateNodeHeight([y EXCEPT !.left = x.right]))
         IN  updateMaxHigh(updateNodeHeight([x EXCEPT !.right = y2]))

\* IntervalTree::rotateLeft; x->right is dereferenced unchecked.
rotateLeft(x) ==
    IF IsNil(x.right) THEN Crashed
    ELSE LET y == x.right
             x2 == updateMaxHigh(updateNodeHeight([x EXCEPT !.right = y.left]))
         IN  updateMaxHigh(updateNodeHeight([y EXCEPT !.left = x2]))

\* What reading new_interval->low gives once new_interval was moved from
\* (a null std::unique_ptr): the process is ended, or some int is read.
NullReads ==
    {[segv |-> TRUE, value |-> 0]}
    \cup {[segv |-> FALSE, value |-> v] : v \in 0..MaxPort + 1}

\* The balancing of insertRecursive; every frame that gets here has passed
\* new_interval on to the call below it, so new_interval->low is null_read.
insertRebalance(node, null_read) ==
    LET balance == getBalanceFactor(node)
        low == null_read.value
    IN  IF balance <= 1 /\ balance >= -1 THEN node
        ELSE IF null_read.segv THEN Crashed
        ELSE IF balance > 1 /\ low < node.left.interval.low
        THEN rotateRight(node)
        ELSE IF balance < -1 /\ low > node.right.interval.low
        THEN rotateLeft(node)
        ELSE IF balance > 1 /\ low > node.left.interval.low
        THEN LET l == rotateLeft(node.left)
             IN  IF IsCrashed(l) THEN Crashed
                 ELSE rotateRight([node EXCEPT !.left = l])
        ELSE IF balance < -1 /\ low < node.right.interval.low
        THEN LET r == rotateRight(node.right)
             IN  IF IsCrashed(r) THEN Crashed
                 ELSE rotateLeft([node EXCEPT !.right = r])
        ELSE node

\* IntervalTree::insertRecursive.
RECURSIVE insertRecursive(_, _, _)
insertRecursive(node, new_interval, null_read) ==
    IF IsNil(node) THEN IntervalNode(new_interval)
    ELSE LET go_left ==
                 \/ new_interval.low < node.interval.low
                 \/ /\ new_interval.low = node.interval.low
                    /\ new_interval.high < node.interval.high
             child == insertRecursive(IF go_left THEN node.left ELSE node.right,
                                      new_interval, null_read)
         IN  IF IsCrashed(child) THEN Crashed
             ELSE insertRebalance(
                      updateMaxHigh(updateNodeHeight(
                          IF go_left THEN [node EXCEPT !.left = child]
                          ELSE [node EXCEPT !.right = child])),
                      null_read)

\* IntervalTree::insert without its test of low > high.
IntervalTree_insert_noCheck(root, new_interval, null_read) ==
    insertRecursive(root, new_interval, null_read)

\* IntervalTree::insert: the new root.
IntervalTree_insert(root, new_interval, null_read) ==
    IF new_interval.low > new_interval.high THEN root
    ELSE insertRecursive(root, new_interval, null_read)

\* IntervalTree::findMin.
RECURSIVE findMin(_)
findMin(node) == IF IsNil(node.left) THEN node ELSE findMin(node.left)

\* The balancing of removeRecursive.
removeRebalance(node) ==
    LET balance == getBalanceFactor(node)
    IN  IF balance > 1 /\ getBalanceFactor(node.left) >= 0
        THEN rotateRight(node)
        ELSE IF balance > 1 /\ getBalanceFactor(node.left) < 0
        THEN rotateRight([node EXCEPT !.left = rotateLeft(node.left)])
        ELSE IF balance < -1 /\ getBalanceFactor(node.right) <= 0
        THEN rotateLeft(node)
        ELSE IF balance < -1 /\ getBalanceFactor(node.right) > 0
        THEN rotateLeft([node EXCEPT !.right = rotateRight(node.right)])
        ELSE node

\* IntervalTree::removeRecursive.
RECURSIVE removeRecursive(_, _)
removeRecursive(node, target_interval) ==
    IF IsNil(node) THEN Nil
    ELSE LET target_is_less ==
                 \/ target_interval.low < node.interval.low
                 \/ /\ target_interval.low = node.interval.low
                    /\ target_interval.high < node.interval.high
             target_is_greater ==
                 \/ target_interval.low > node.interval.low
                 \/ /\ target_interval.low = node.interval.low
                    /\ target_interval.high > node.interval.high
             found == node.interval = target_interval
         IN  IF target_is_less
             THEN removeRebalance(updateMaxHigh(updateNodeHeight(
                      [node EXCEPT !.left = removeRecursive(@, target_interval)])))
             ELSE IF target_is_greater
             THEN removeRebalance(updateMaxHigh(updateNodeHeight(
                      [node EXCEPT !.right = removeRecursive(@, target_interval)])))
             ELSE IF found /\ (IsNil(node.left) \/ IsNil(node.right))
             THEN IF ~IsNil(node.left) THEN node.left ELSE node.right
             ELSE IF found
             THEN LET successor == findMin(node.right).interval
                  IN  removeRebalance(updateMaxHigh(updateNodeHeight(
                          [node EXCEPT !.interval = successor,
                                       !.right = removeRecursive(@, successor)])))
             ELSE removeRebalance(updateMaxHigh(updateNodeHeight(node)))

\* IntervalTree::findOverlappingRecursive for a point: the result vector.
RECURSIVE findOverlappingPoint(_, _)
findOverlappingPoint(node, point) ==
    IF IsNil(node) THEN <<>>
    ELSE (IF point >= node.interval.low /\ point <= node.interval.high
          THEN <<node.interval>> ELSE <<>>)
         \o (IF ~IsNil(node.left) /\ node.left.max_high >= point
             THEN findOverlappingPoint(node.left, point) ELSE <<>>)
         \o (IF ~IsNil(node.right) /\ point >= node.interval.low
             THEN findOverlappingPoint(node.right, point)
             ELSE IF ~IsNil(node.right) /\ node.right.max_high >= point
                     /\ point > node.interval.high
             THEN findOverlappingPoint(node.right, point)
             ELSE <<>>)

\* IntervalTree::findOverlappingRecursive for a query interval.
RECURSIVE findOverlappingRange(_, _, _)
findOverlappingRange(node, low, high) ==
    IF IsNil(node) THEN <<>>
    ELSE (IF low <= node.interval.high /\ high >= node.interval.low
          THEN <<node.interval>> ELSE <<>>)
         \o (IF ~IsNil(node.left) /\ node.left.max_high >= low
             THEN findOverlappingRange(node.left, low, high) ELSE <<>>)
         \o (IF ~IsNil(node.right) /\ high >= node.interval.low
             THEN findOverlappingRange(node.right, low, high) ELSE <<>>)

\* IntervalTree::findOverlappingIntervals(int low, int high).
findOverlappingIntervals(root, low, high) ==
    IF low > high THEN <<>> ELSE findOverlappingRange(root, low, high)

\* The number of nodes of a tree.
RECURSIVE TreeSize(_)
TreeSize(node) ==
    IF IsNil(node) THEN 0 ELSE 1 + TreeSize(node.left) + TreeSize(node.right)

TreeUnchanged ==
    UNCHANGED <<rules_by_id_, rules_by_priority_cache_, source_ip_trie_,
                dest_ip_trie_, source_port_tree_, dest_port_tree_,
                bloom_filter_, use_bloom_filter_, twin, bloomFilter,
                compressedTrie, rcuState, lockVars, local, poolVars>>

TreeAlive ==
    intervalTree.constructed /\ ~IsCrashed(intervalTree.root)

\* How often each interval was inserted and not removed since.
NoIntervals == [i \in TreeIntervals |-> 0]

\* IntervalTree::IntervalTree.
TreeConstruct ==
    /\ ~intervalTree.constructed
    /\ intervalTree' = [constructed |-> TRUE, root |-> Nil]
    /\ hist' = [stored |-> NoIntervals]
    /\ last' = [op |-> "IntervalTree"]
    /\ TreeUnchanged

\* IntervalTree::insert(low, high, data_id).
TreeInsert(i, null_read) ==
    /\ TreeAlive
    /\ TreeSize(intervalTree.root) < MaxNodes
    /\ intervalTree' = [intervalTree EXCEPT
                            !.root = IntervalTree_insert(@, i, null_read)]
    /\ hist' = [hist EXCEPT !.stored[i] = IF i.low > i.high THEN @ ELSE @ + 1]
    /\ last' = [op |-> "insert", interval |-> i]
    /\ TreeUnchanged

\* IntervalTree::remove(low, high, data_id); it returns true on every path.
TreeRemove(i) ==
    /\ TreeAlive
    /\ intervalTree' = [intervalTree EXCEPT !.root = removeRecursive(@, i)]
    /\ hist' = [hist EXCEPT !.stored[i] = IF @ > 0 THEN @ - 1 ELSE @]
    /\ last' = [op |-> "remove", interval |-> i, ret |-> TRUE,
                before |-> intervalTree.root]
    /\ TreeUnchanged

\* IntervalTree::findOverlappingIntervals(int point).
TreeFindPoint(point) ==
    /\ TreeAlive
    /\ last' = [op |-> "findPoint", point |-> point,
                ret |-> findOverlappingPoint(intervalTree.root, point)]
    /\ UNCHANGED <<intervalTree, hist>>
    /\ TreeUnchanged

\* IntervalTree::findOverlappingIntervals(int low, int high).
TreeFindRange(low, high) ==
    /\ TreeAlive
    /\ last' = [op |-> "findRange", low |-> low, high |-> high,
                ret |-> findOverlappingIntervals(intervalTree.root, low, high)]
    /\ UNCHANGED <<intervalTree, hist>>
    /\ TreeUnchanged

NextTree ==
    \/ TreeConstruct
    \/ \E i \in TreeIntervals, null_read \in NullReads : TreeInsert(i, null_read)
    \/ \E i \in TreeIntervals : TreeRemove(i)
    \/ \E point \in TreePoints : TreeFindPoint(point)
    \/ \E range \in TreeRanges : TreeFindRange(range[1], range[2])

SpecTree == Init /\ [][NextTree]_vars

\* How often each interval occurs in a result vector, and in a tree.
CountIn(s) ==
    [i \in TreeIntervals |-> Cardinality({n \in 1..Len(s) : s[n] = i})]

RECURSIVE TreeCount(_, _)
TreeCount(node, i) ==
    IF IsNil(node) THEN 0
    ELSE (IF node.interval = i THEN 1 ELSE 0)
         + TreeCount(node.left, i) + TreeCount(node.right, i)

TreeContents(node) == [i \in TreeIntervals |-> TreeCount(node, i)]

\* The stored intervals that a query must return.
StoredAt(stored, point) ==
    [i \in TreeIntervals |->
        IF i.low <= point /\ point <= i.high THEN stored[i] ELSE 0]

StoredIn(stored, low, high) ==
    [i \in TreeIntervals |->
        IF low <= i.high /\ high >= i.low THEN stored[i] ELSE 0]

\* C23: after any inserts and removes, a point query returns exactly the
\* stored intervals that contain the point, and a range query exactly those
\* that overlap the range, each once per time it is stored.
C23_QueryReturnsStored ==
    TreeAlive =>
        /\ \A point \in TreePoints :
               CountIn(findOverlappingPoint(intervalTree.root, point))
                   = StoredAt(hist.stored, point)
        /\ \A low \in TreePoints, high \in TreePoints :
               low <= high =>
               CountIn(findOverlappingIntervals(intervalTree.root, low, high))
                   = StoredIn(hist.stored, low, high)

\* The same with the nodes of the tree in place of what the callers stored.
QueryReturnsTreeContents ==
    TreeAlive =>
        /\ \A point \in TreePoints :
               CountIn(findOverlappingPoint(intervalTree.root, point))
                   = StoredAt(TreeContents(intervalTree.root), point)
        /\ \A low \in TreePoints, high \in TreePoints :
               low <= high =>
               CountIn(findOverlappingIntervals(intervalTree.root, low, high))
                   = StoredIn(TreeContents(intervalTree.root), low, high)

\* C24: remove(lo, hi, id) takes exactly one stored interval equal in lo,
\* hi and id out of the tree, also when other intervals share its range or
\* its node has two children; when none is equal the tree holds what it
\* held.
C24_RemoveExactlyOne ==
    [][(last'.op = "remove" /\ TreeAlive) =>
          TreeContents(intervalTree'.root)
              = [TreeContents(intervalTree.root) EXCEPT
                    ![last'.interval] = IF @ > 0 THEN @ - 1 ELSE @]]_vars

\* insertRecursive never reads through the moved-from new_interval.
InsertNeverCrashes ==
    intervalTree.constructed => ~IsCrashed(intervalTree.root)

\* ------------------------------------------ SpecTrie: one CompressedTrie

\* The longest ip_prefix inserted, in characters; looked-up strings are one
\* character longer at most.
MaxKeyLen == 2

\* The characters of a key (the bits of an address, as '0' and '1').
Chars == {0, 1}

KeysUpTo(n) == UNION {[1..k -> Chars] : k \in 0..n}

\* The prefixes inserted and removed: the strings that leave the path
\* 1, 11, 111, ... with their last character at most.
NearPath(k) == \A i \in 1..Len(k) - 1 : k[i] = 1

TrieKeys == {k \in KeysUpTo(MaxKeyLen) : NearPath(k)}

\* The strings looked up: the same, one character longer, and one below a
\* leaf.
LookupKeys == {k \in KeysUpTo(MaxKeyLen + 1) : NearPath(k)} \cup {<<0, 1>>}

\* p is a prefix of the string a.
IsPrefix(p, a) == Len(p) <= Len(a) /\ SubSeq(a, 1, Len(p)) = p

\* No entry of TrieNode::children under a character.
NoChild == [present |-> FALSE]

\* TrieNode::TrieNode.
TrieNode ==
    [present |-> TRUE, children |-> [c \in Chars |-> NoChild],
     next_hop_info |-> -1, is_end_of_prefix |-> FALSE]

\* CompressedTrie::insert, from the node current on.
RECURSIVE CompressedTrie_insert(_, _, _)
CompressedTrie_insert(current, ip_prefix, next_hop) ==
    IF ip_prefix = <<>>
    THEN [current EXCEPT !.is_end_of_prefix = TRUE, !.next_hop_info = next_hop]
    ELSE LET c == Head(ip_prefix)
             child == IF current.children[c].present THEN current.children[c]
                      ELSE TrieNode
         IN  [current EXCEPT !.children[c] =
                  CompressedTrie_insert(child, Tail(ip_prefix), next_hop)]

\* The loop of CompressedTrie::lookup that keeps the first node found.
RECURSIVE lookupLoop_first(_, _, _)
lookupLoop_first(current, ip_address, longest_match_node) ==
    IF ip_address = <<>> THEN longest_match_node
    ELSE IF current.children[Head(ip_address)].present
    THEN LET next == current.children[Head(ip_address)]
         IN  lookupLoop_first(next, Tail(ip_address),
                        IF next.is_end_of_prefix /\ ~longest_match_node.present
                        THEN next ELSE longest_match_node)
    ELSE longest_match_node

\* The loop of CompressedTrie::lookup: the last node on the path of
\* ip_address that ends a prefix.
RECURSIVE lookupLoop(_, _, _)
lookupLoop(current, ip_address, longest_match_node) ==
    IF ip_address = <<>> THEN longest_match_node
    ELSE IF current.children[Head(ip_address)].present
    THEN LET next == current.children[Head(ip_address)]
         IN  lookupLoop(next, Tail(ip_address),
                        IF next.is_end_of_prefix THEN next
                        ELSE longest_match_node)
    ELSE longest_match_node

\* CompressedTrie::lookup.
CompressedTrie_lookup(root, ip_address) ==
    LET longest_match_node ==
            lookupLoop(root, ip_address,
                       IF root.is_end_of_prefix THEN root ELSE NoChild)
    IN  IF longest_match_node.present THEN longest_match_node.next_hop_info
        ELSE -1

\* CompressedTrie::remove, from the node current on; no node is erased.
RECURSIVE CompressedTrie_remove(_, _)
CompressedTrie_remove(current, ip_prefix) ==
    IF ip_prefix = <<>>
    THEN IF current.is_end_of_prefix
         THEN [current EXCEPT !.is_end_of_prefix = FALSE, !.next_hop_info = -1]
         ELSE current
    ELSE LET c == Head(ip_prefix)
         IN  IF current.children[c].present
             THEN [current EXCEPT !.children[c] =
                      CompressedTrie_remove(@, Tail(ip_prefix))]
             ELSE current

TrieUnchanged ==
    UNCHANGED <<rules_by_id_, rules_by_priority_cache_, source_ip_trie_,
                dest_ip_trie_, source_port_tree_, dest_port_tree_,
                bloom_filter_, use_bloom_filter_, twin, bloomFilter,
                intervalTree, rcuState, lockVars, local, poolVars>>

\* CompressedTrie::CompressedTrie. hist.stored is the value last inserted
\* under each prefix (0: none, or removed since), hist.pairs every
\* <<prefix, value>> inserted under a prefix not removed since.
TrieConstruct ==
    /\ ~compressedTrie.constructed
    /\ compressedTrie' = [constructed |-> TRUE, root |-> TrieNode]
    /\ hist' = [stored |-> [p \in TrieKeys |-> 0], pairs |-> {}]
    /\ last' = [op |-> "CompressedTrie"]
    /\ TrieUnchanged

TrieInsert(ip_prefix, next_hop) ==
    /\ compressedTrie.constructed
    /\ compressedTrie' = [compressedTrie EXCEPT
                             !.root = CompressedTrie_insert(@, ip_prefix, next_hop)]
    /\ hist' = [stored |-> [hist.stored EXCEPT ![ip_prefix] = next_hop],
                pairs |-> hist.pairs \cup {<<ip_prefix, next_hop>>}]
    /\ last' = [op |-> "insert", ip_prefix |-> ip_prefix, next_hop |-> next_hop]
    /\ TrieUnchanged

TrieLookup(ip_address) ==
    /\ compressedTrie.constructed
    /\ last' = [op |-> "lookup", ip_address |-> ip_address,
                ret |-> CompressedTrie_lookup(compressedTrie.root, ip_address)]
    /\ UNCHANGED <<compressedTrie, hist>>
    /\ TrieUnchanged

TrieRemove(ip_prefix) ==
    /\ compressedTrie.constructed
    /\ compressedTrie' = [compressedTrie EXCEPT
                             !.root = CompressedTrie_remove(@, ip_prefix)]
    /\ hist' = [stored |-> [hist.stored EXCEPT ![ip_prefix] = 0],
                pairs |-> {pr \in hist.pairs : pr[1] # ip_prefix}]
    /\ last' = [op |-> "remove", ip_prefix |-> ip_prefix]
    /\ TrieUnchanged

NextTrie ==
    \/ TrieConstruct
    \/ \E ip_prefix \in TrieKeys, next_hop \in RuleIds :
           TrieInsert(ip_prefix, next_hop)
    \/ \E ip_address \in LookupKeys : TrieLookup(ip_address)
    \/ \E ip_prefix \in TrieKeys : TrieRemove(ip_prefix)

SpecTrie == Init /\ [][NextTrie]_vars

\* The rule ids a lookup reports: the one it returns, none for -1.
Reported(ret) == IF ret = -1 THEN {} ELSE {ret}

\* C25: the lookup of an address reports the rule id of every inserted
\* prefix that covers the address and of no other, also with several ids
\* under one prefix and with shorter covering prefixes.
C25_LookupReportsEveryCover ==
    compressedTrie.constructed =>
        \A a \in LookupKeys :
            Reported(CompressedTrie_lookup(compressedTrie.root, a))
                = {pr[2] : pr \in {x \in hist.pairs : IsPrefix(x[1], a)}}

\* The prefixes a trie holds, with their values (0: not held).
RECURSIVE NodeAt(_, _)
NodeAt(node, key) ==
    IF key = <<>> \/ ~node.present THEN node
    ELSE NodeAt(node.children[Head(key)], Tail(key))

TrieStored(root) ==
    [p \in TrieKeys |->
        LET n == NodeAt(root, p)
        IN  IF n.present /\ n.is_end_of_prefix THEN n.next_hop_info ELSE 0]

\* The value under the longest stored prefix of a key, -1 when none.
LongestMatch(stored, key) ==
    LET covering == {p \in TrieKeys : stored[p] # 0 /\ IsPrefix(p, key)}
    IN  IF covering = {} THEN -1
        ELSE stored[CHOOSE p \in covering :
                        \A q \in covering : Len(q) <= Len(p)]

MaxHold == 2

\* ReadWriteLock::tryReadLock: [l, ret]; owns is what try_to_lock on mutex_
\* gave.
tryReadLock(l, owns) ==
    IF owns /\ ~l.writer_active_ /\ l.waiting_writers_ = 0
    THEN [l |-> [l EXCEPT !.active_readers_ = @ + 1], ret |-> TRUE]
    ELSE [l |-> l, ret |-> FALSE]

\* ReadWriteLock::tryWriteLock: writer_thread_id_ and
\* recursive_write_count_ are left as they are.
tryWriteLock(l, owns) ==
    IF owns /\ l.active_readers_ = 0 /\ ~l.writer_active_
    THEN [l |-> [l EXCEPT !.writer_active_ = TRUE], ret |-> TRUE]
    ELSE [l |-> l, ret |-> FALSE]

\* The lock the threads of SpecRW call.
TheLock == locks["rw_lock_"]

SetLock(l) == locks' = [locks EXCEPT !["rw_lock_"] = l]

RWUnchanged ==
    UNCHANGED <<rules_by_id_, rules_by_priority_cache_, source_ip_trie_,
                dest_ip_trie_, source_port_tree_, dest_port_tree_,
                bloom_filter_, use_bloom_filter_, twin, bloomFilter,
                intervalTree, compressedTrie, rcuState, prog, local, poolVars>>

\* Thread t is not inside a call.
Idle(t) == hist # <<>> /\ op[t] = "idle"

\* ReadWriteLock::ReadWriteLock. hist[t] is what thread t holds: its
\* read locks, its write locks, and whether it took the write lock with
\* tryWriteLock.
RWConstruct ==
    /\ hist = <<>>
    /\ hist' = [t \in Threads |-> [reads |-> 0, writes |-> 0, tried |-> FALSE]]
    /\ last' = [op |-> "ReadWriteLock"]
    /\ UNCHANGED <<locks, op, waiting>>
    /\ RWUnchanged

\* Thread t calls readLock: it returns, or waits on reader_cv_.
RWReadLock(t) ==
    /\ Idle(t) /\ hist[t].reads < MaxHold
    /\ IF readLock_ready(TheLock)
       THEN /\ SetLock(readLock(TheLock))
            /\ hist' = [hist EXCEPT ![t].reads = @ + 1]
            /\ UNCHANGED op
       ELSE /\ op' = [op EXCEPT ![t] = "readLock"]
            /\ UNCHANGED <<locks, hist>>
    /\ last' = [op |-> "readLock", thread |-> t, blocked |-> ~readLock_ready(TheLock)]
    /\ UNCHANGED waiting
    /\ RWUnchanged

\* Thread t leaves the wait of readLock.
RWReadLockWake(t) ==
    /\ hist # <<>> /\ op[t] = "readLock"
    /\ readLock_ready(TheLock)
    /\ SetLock(readLock(TheLock))
    /\ hist' = [hist EXCEPT ![t].reads = @ + 1]
    /\ op' = [op EXCEPT ![t] = "idle"]
    /\ last' = [op |-> "readLock returns", thread |-> t]
    /\ UNCHANGED waiting
    /\ RWUnchanged

\* Thread t calls tryReadLock.
RWTryReadLock(t, owns) ==
    /\ Idle(t) /\ hist[t].reads < MaxHold
    /\ LET r == tryReadLock(TheLock, owns)
       IN  /\ SetLock(r.l)
           /\ hist' = [hist EXCEPT ![t].reads = IF r.ret THEN @ + 1 ELSE @]
           /\ last' = [op |-> "tryReadLock", thread |-> t, owns |-> owns,
                       ret |-> r.ret]
    /\ UNCHANGED <<op, waiting>>
    /\ RWUnchanged

\* Thread t calls readUnlock for a read lock it holds.
RWReadUnlock(t) ==
    /\ Idle(t) /\ hist[t].reads > 0
    /\ SetLock(readUnlock(TheLock))
    /\ hist' = [hist EXCEPT ![t].reads = @ - 1]
    /\ last' = [op |-> "readUnlock", thread |-> t]
    /\ UNCHANGED <<op, waiting>>
    /\ RWUnchanged

\* Thread t calls writeLock: it returns, or waits on writer_cv_.
RWWriteLock(t) ==
    /\ Idle(t) /\ hist[t].writes < MaxHold
    /\ LET w == writeLock(TheLock, t)
       IN  /\ SetLock(w.l)
           /\ hist' = [hist EXCEPT ![t].writes = IF w.done THEN @ + 1 ELSE @]
           /\ op' = [op EXCEPT ![t] = IF w.done THEN "idle" ELSE "writeLock"]
           /\ waiting' = [waiting EXCEPT ![t] = ~w.done]
           /\ last' = [op |-> "writeLock", thread |-> t, blocked |-> ~w.done]
    /\ RWUnchanged

\* Thread t leaves the wait of writeLock.
RWWriteLockWake(t) ==
    /\ hist # <<>> /\ op[t] = "writeLock" /\ waiting[t]
    /\ writeLock_ready(TheLock)
    /\ SetLock(writeLock_wake(TheLock, t))
    /\ hist' = [hist EXCEPT ![t].writes = @ + 1]
    /\ op' = [op EXCEPT ![t] = "idle"]
    /\ waiting' = [waiting EXCEPT ![t] = FALSE]
    /\ last' = [op |-> "writeLock returns", thread |-> t]
    /\ RWUnchanged

\* Thread t calls tryWriteLock.
RWTryWriteLock(t, owns) ==
    /\ Idle(t) /\ hist[t].writes < MaxHold
    /\ LET r == tryWriteLock(TheLock, owns)
       IN  /\ SetLock(r.l)
           /\ hist' = [hist EXCEPT ![t].writes = IF r.ret THEN @ + 1 ELSE @,
                                   ![t].tried = IF r.ret THEN TRUE ELSE @]
           /\ last' = [op |-> "tryWriteLock", thread |-> t, owns |-> owns,
                       ret |-> r.ret]
    /\ UNCHANGED <<op, waiting>>
    /\ RWUnchanged

\* Thread t calls writeUnlock for a write lock it holds.
RWWriteUnlock(t) ==
    /\ Idle(t) /\ hist[t].writes > 0
    /\ SetLock(writeUnlock(TheLock, t))
    /\ hist' = [hist EXCEPT ![t].writes = @ - 1,
                            ![t].tried = IF hist[t].writes = 1 THEN FALSE ELSE @]
    /\ last' = [op |-> "writeUnlock", thread |-> t]
    /\ UNCHANGED <<op, waiting>>
    /\ RWUnchanged

NextRW ==
    \/ RWConstruct
    \/ \E t \in Threads : RWReadLock(t)
    \/ \E t \in Threads : RWReadLockWake(t)
    \/ \E t \in Threads, owns \in BOOLEAN : RWTryReadLock(t, owns)
    \/ \E t \in Threads : RWReadUnlock(t)
    \/ \E t \in Threads : RWWriteLock(t)
    \/ \E t \in Threads : RWWriteLockWake(t)
    \/ \E t \in Threads, owns \in BOOLEAN : RWTryWriteLock(t, owns)
    \/ \E t \in Threads : RWWriteUnlock(t)

SpecRW == Init /\ [][NextRW]_vars

\* The threads that hold the lock for reading, and for writing.
ReadHolders == {t \in Threads : hist[t].reads > 0}

WriteHolders == {t \in Threads : hist[t].writes > 0}

\* C27: at most one thread holds the write lock and none holds a read lock
\* meanwhile, whatever way the threads interleave readLock, tryReadLock,
\* writeLock, tryWriteLock and the unlocks of what they hold.
C27_WriterExcludesAll ==
    hist # <<>> =>
        /\ Cardinality(WriteHolders) <= 1
        /\ WriteHolders # {} => ReadHolders = {}

\* Two threads hold the read lock together, the second one through
\* tryReadLock.
C27_Witness ==
    /\ hist # <<>>
    /\ Cardinality(ReadHolders) = 2
    /\ last.op = "tryReadLock" /\ last.ret

\* Thread t holds the write lock it took with writeLock.
HoldsByWriteLock(t) == hist[t].writes > 0 /\ ~hist[t].tried

NobodyHolds == ReadHolders = {} /\ WriteHolders = {}

\* C29: tryWriteLock (its try_to_lock on mutex_ granted) succeeds exactly
\* when no thread holds the lock; its caller then holds the write lock as
\* after writeLock: further tryWriteLock and tryReadLock calls fail, a
\* writeLock of the caller does not wait, and one writeUnlock of the caller
\* frees the lock for the next tryWriteLock, writeLock or readLock.
C29_TryWriteLockHolds ==
    [][hist # <<>> =>
          /\ last'.op = "tryWriteLock" /\ last'.owns =>
                 (last'.ret <=> NobodyHolds)
          /\ \A t \in Threads :
                 hist[t].writes > 0 /\ hist[t].tried =>
                     /\ last'.op \in {"tryWriteLock", "tryReadLock"} =>
                            ~last'.ret
                     /\ last'.op = "writeLock" /\ last'.thread = t =>
                            ~last'.blocked
                     /\ last'.op = "writeUnlock" /\ last'.thread = t
                            /\ hist[t].writes = 1 =>
                            writeLock_ready(TheLock') /\ readLock_ready(TheLock')]_vars

\*****************************************************************************
\* RcuUtils (threading.h 76-119, threading.cpp 109-196)
\*
\* SpecRcu: the threads call rcuReadLock, rcuReadUnlock, synchronizeRcu,
\* callRcu and processRcuCallbacks in any order. rcuState holds the
\* variables of the namespace: rcu_global_epoch, the rcu_thread_epoch of
\* each thread, deferred_callbacks, and the target_epoch of a thread that
\* is inside synchronizeRcu. A callback is known by the number of the
\* callRcu that queued it. hist is what the callers did: which threads are
\* between rcuReadLock and rcuReadUnlock, how many callbacks were queued,
\* and for a thread inside synchronizeRcu the readers that were in their
\* section when it called and have not left it since, and the callbacks
\* that were queued when it called; how often each callback has run and
\* how many synchronizeRcu calls were made.
\*****************************************************************************

\* The largest value rcu_global_epoch takes in the model.
MaxEpoch == 3

\* The number of callRcu calls in the model.
MaxCallbacks == 2

\* A std::function that holds no target.
NullCallback == 0

SeqToSet(s) == {s[i] : i \in 1..Len(s)}

\* rcuReadLock
rcuReadLock(rcu, t) ==
    [rcu EXCEPT !.rcu_thread_epoch[t] = rcu.rcu_global_epoch]

\* rcuReadUnlock: its body is empty.
rcuReadUnlock(rcu, t) == rcu

\* synchronizeRcu up to the wait: the fetch_add and target_epoch.
synchronizeRcu_advance(rcu, t) ==
    [rcu EXCEPT !.rcu_global_epoch = @ + 1,
                !.target_epoch[t] = rcu.rcu_global_epoch + 1]

\* callRcu
callRcu(rcu, callback) ==
    IF callback = NullCallback
    THEN rcu
    ELSE [rcu EXCEPT !.deferred_callbacks = Append(@, callback)]

\* processRcuCallbacks without the swap: the callbacks run and stay queued.
processRcuCallbacks_noSwap(rcu) ==
    [rcu |-> rcu, ran |-> rcu.deferred_callbacks]

\* processRcuCallbacks: the state it leaves and the callbacks it ran, in
\* the order in which it ran them.
processRcuCallbacks(rcu) ==
    [rcu |-> [rcu EXCEPT !.deferred_callbacks = <<>>],
     ran |-> rcu.deferred_callbacks]

RcuUnchanged ==
    UNCHANGED <<rules_by_id_, rules_by_priority_cache_, source_ip_trie_,
                dest_ip_trie_, source_port_tree_, dest_port_tree_,
                bloom_filter_, use_bloom_filter_, twin, bloomFilter,
                intervalTree, compressedTrie, lockVars, local, poolVars>>

\* How often callback k is in the sequence s.
CountOf(s, k) == Cardinality({i \in 1..Len(s) : s[i] = k})

\* The runs of each callback after the callbacks of s have run.
RanAfter(ran, s) == [k \in DOMAIN ran |-> ran[k] + CountOf(s, k)]

\* The threads between rcuReadLock and rcuReadUnlock.
RcuReaders == {r \in Threads : hist.inside[r]}

\* Thread t is inside synchronizeRcu.
InSynchronize(t) == rcuState.target_epoch[t] # 0

\* The initial values of the variables of the namespace.
RcuStart ==
    /\ ~rcuState.constructed
    /\ rcuState' = [constructed |-> TRUE,
                    rcu_global_epoch |-> 1,
                    rcu_thread_epoch |-> [t \in Threads |-> 0],
                    target_epoch |-> [t \in Threads |-> 0],
                    deferred_callbacks |-> <<>>]
    /\ hist' = [inside |-> [t \in Threads |-> FALSE],
                queued |-> 0,
                ran |-> [k \in 1..MaxCallbacks |-> 0],
                syncs |-> 0,
                pending |-> [t \in Threads |-> {}],
                before |-> [t \in Threads |-> {}]]
    /\ last' = [op |-> "RcuUtils"]
    /\ RcuUnchanged

\* Thread t enters a read-side critical section.
RcuReadLock(t) ==
    /\ rcuState.constructed /\ ~InSynchronize(t) /\ ~hist.inside[t]
    /\ rcuState' = rcuReadLock(rcuState, t)
    /\ hist' = [hist EXCEPT !.inside[t] = TRUE]
    /\ last' = [op |-> "rcuReadLock", thread |-> t]
    /\ RcuUnchanged

\* Thread t leaves its read-side critical section.
RcuReadUnlock(t) ==
    /\ rcuState.constructed /\ hist.inside[t]
    /\ rcuState' = rcuReadUnlock(rcuState, t)
    /\ hist' = [hist EXCEPT !.inside[t] = FALSE,
                            !.pending = [s \in Threads |-> @[s] \ {t}]]
    /\ last' = [op |-> "rcuReadUnlock", thread |-> t]
    /\ RcuUnchanged

\* Thread t, outside a read-side critical section, calls synchronizeRcu:
\* it advances the epoch, then yields (and sleeps when force_full_wait).
RcuSynchronize(t, force_full_wait) ==
    /\ rcuState.constructed /\ ~InSynchronize(t) /\ ~hist.inside[t]
    /\ rcuState.rcu_global_epoch < MaxEpoch
    /\ rcuState' = synchronizeRcu_advance(rcuState, t)
    /\ hist' = [hist EXCEPT !.pending[t] = RcuReaders,
                            !.before[t] = SeqToSet(rcuState.deferred_callbacks),
                            !.syncs = @ + 1]
    /\ last' = [op |-> "synchronizeRcu", thread |-> t,
                force_full_wait |-> force_full_wait]
    /\ RcuUnchanged

\* The yields and the sleep of thread t are over: it runs
\* processRcuCallbacks and returns from synchronizeRcu.
RcuSynchronizeReturn(t) ==
    /\ rcuState.constructed /\ InSynchronize(t)
    /\ LET p == processRcuCallbacks(rcuState)
       IN  /\ rcuState' = [p.rcu EXCEPT !.target_epoch[t] = 0]
           /\ last' = [op |-> "synchronizeRcu returns", thread |-> t,
                       ran |-> p.ran, readers |-> RcuReaders]
           /\ hist' = [hist EXCEPT !.pending[t] = {}, !.before[t] = {},
                                   !.ran = RanAfter(hist.ran, p.ran)]
    /\ RcuUnchanged

\* Thread t calls callRcu with a callback, or with an empty std::function.
RcuCallRcu(t, callback) ==
    /\ rcuState.constructed /\ ~InSynchronize(t)
    /\ callback # NullCallback => hist.queued < MaxCallbacks
    /\ rcuState' = callRcu(rcuState, callback)
    /\ hist' = [hist EXCEPT !.queued = IF callback = NullCallback THEN @ ELSE @ + 1]
    /\ last' = [op |-> "callRcu", thread |-> t, callback |-> callback]
    /\ RcuUnchanged

\* Thread t calls processRcuCallbacks itself.
RcuProcessCallbacks(t) ==
    /\ rcuState.constructed /\ ~InSynchronize(t)
    /\ LET p == processRcuCallbacks(rcuState)
       IN  /\ rcuState' = p.rcu
           /\ last' = [op |-> "processRcuCallbacks", thread |-> t,
                       ran |-> p.ran, readers |-> RcuReaders]
           /\ hist' = [hist EXCEPT !.ran = RanAfter(hist.ran, p.ran)]
    /\ RcuUnchanged

NextRcu ==
    \/ RcuStart
    \/ \E t \in Threads : RcuReadLock(t)
    \/ \E t \in Threads : RcuReadUnlock(t)
    \/ \E t \in Threads, force_full_wait \in BOOLEAN :
         RcuSynchronize(t, force_full_wait)
    \/ \E t \in Threads : RcuSynchronizeReturn(t)
    \/ \E t \in Threads :
         RcuCallRcu(t, IF rcuState.constructed THEN hist.queued + 1 ELSE 1)
    \/ \E t \in Threads : RcuCallRcu(t, NullCallback)
    \/ \E t \in Threads : RcuProcessCallbacks(t)

SpecRcu == Init /\ [][NextRcu]_vars

\* C30: when synchronizeRcu returns to thread t, no thread that was in a
\* read-side critical section when t called it is still in that section;
\* and the callbacks it ran that were queued with callRcu before the call
\* did not run while such a reader was still in its section.
C30_GracePeriod ==
    [][\A t \in Threads :
         (rcuState.constructed /\ last'.op = "synchronizeRcu returns"
              /\ last'.thread = t) =>
           /\ hist.pending[t] = {}
           /\ (SeqToSet(last'.ran) \cap hist.before[t] # {} =>
                 hist.pending[t] \cap last'.readers = {})]_vars

\*****************************************************************************
\* SimpleThreadPool (threading.h 130-146, threading.cpp 199-274)
\*
\* SpecPool: the threads of the program call enqueue and stop on one pool
\* while its workers run their loop. enqueue reads stop_ before it takes
\* queue_mutex_, so the read and the push are two steps; stop reads stop_,
\* sets it under the mutex, and joins. A task is known by the number of the
\* enqueue call that passed it. hist is what happened so far: the tasks
\* pushed to tasks_, how often each task ran to its end, whether a stop
\* call that joined the workers has returned, and the tasks passed to
\* enqueue after that.
\*****************************************************************************

\* The largest num_threads and hardware_concurrency in the model.
MaxWorkers == 2

\* The number of enqueue calls in the model.
MaxTasks == 2

Tasks == 1..MaxTasks

\* What the calls on the single objects below leave alone.
baseVars ==
    <<rules_by_id_, rules_by_priority_cache_, source_ip_trie_,
      dest_ip_trie_, source_port_tree_, dest_port_tree_, bloom_filter_,
      use_bloom_filter_, twin, lockVars, local>>

PoolUnchanged ==
    UNCHANGED <<baseVars, bloomFilter, intervalTree, compressedTrie,
                rcuState, hashTable, memoryPool>>

\* The constructor: the number of workers it creates.
threads_to_create(num_threads, hardware_concurrency) ==
    LET n == IF num_threads = 0 THEN hardware_concurrency ELSE num_threads
    IN  IF n = 0 THEN 1 ELSE n

\* The worker loop from the wait to the end of the locked block: the
\* predicate of the wait holds; the worker returns, or takes the front task.
worker_take(pool, w) ==
    IF pool.stop_ /\ pool.tasks_ = <<>>
    THEN [pool EXCEPT !.workers_[w] = [pc |-> "exited", task |-> 0]]
    ELSE [pool EXCEPT !.workers_[w] = [pc |-> "run", task |-> Head(pool.tasks_)],
                      !.tasks_ = Tail(@)]

worker_ready(pool) == pool.stop_ \/ pool.tasks_ # <<>>

\* enqueue after its test of stop_: the push under queue_mutex_.
enqueue_push(pool, task) == [pool EXCEPT !.tasks_ = Append(@, task)]

\* stop after its test of stop_: the write under queue_mutex_.
stop_set(pool) == [pool EXCEPT !.stop_ = TRUE]

\* The joins of stop are over: every worker has returned.
stop_joined(pool) ==
    \A w \in DOMAIN pool.workers_ : pool.workers_[w].pc = "exited"

PoolIdle(t) == threadPool.constructed /\ threadPool.callers[t].pc = "idle"

PoolConstruct(num_threads, hardware_concurrency) ==
    /\ ~threadPool.constructed
    /\ threadPool' =
         [constructed |-> TRUE, stop_ |-> FALSE, tasks_ |-> <<>>,
          workers_ |-> [w \in 1..threads_to_create(num_threads, hardware_concurrency)
                          |-> [pc |-> "wait", task |-> 0]],
          callers |-> [t \in Threads |-> [pc |-> "idle", task |-> 0]]]
    /\ hist' = [next |-> 1, pushed |-> {}, finished |-> [k \in Tasks |-> 0],
                stop_returned |-> FALSE, after_stop |-> {}]
    /\ last' = [op |-> "SimpleThreadPool", num_threads |-> num_threads]
    /\ PoolUnchanged

\* Thread t calls enqueue: it reads stop_ and returns, or goes on to push.
PoolEnqueue(t) ==
    /\ PoolIdle(t) /\ hist.next <= MaxTasks
    /\ threadPool' =
         IF threadPool.stop_ THEN threadPool
         ELSE [threadPool EXCEPT !.callers[t] = [pc |-> "enqueue", task |-> hist.next]]
    /\ hist' = [hist EXCEPT !.next = @ + 1,
                            !.after_stop = IF hist.stop_returned
                                           THEN @ \cup {hist.next} ELSE @]
    /\ last' = [op |-> "enqueue", thread |-> t, task |-> hist.next,
                ignored |-> threadPool.stop_]
    /\ PoolUnchanged

\* Thread t, inside enqueue, pushes its task and returns.
PoolEnqueuePush(t) ==
    /\ threadPool.constructed /\ threadPool.callers[t].pc = "enqueue"
    /\ threadPool' =
         [enqueue_push(threadPool, threadPool.callers[t].task)
            EXCEPT !.callers[t] = [pc |-> "idle", task |-> 0]]
    /\ hist' = [hist EXCEPT !.pushed = @ \cup {threadPool.callers[t].task}]
    /\ last' = [op |-> "enqueue returns", thread |-> t,
                task |-> threadPool.callers[t].task]
    /\ PoolUnchanged

\* Thread t calls stop: it reads stop_ and returns, or sets it.
PoolStop(t) ==
    /\ PoolIdle(t)
    /\ threadPool' =
         IF threadPool.stop_ THEN threadPool
         ELSE [stop_set(threadPool) EXCEPT !.callers[t] = [pc |-> "stop", task |-> 0]]
    /\ last' = [op |-> "stop", thread |-> t, already |-> threadPool.stop_]
    /\ UNCHANGED hist
    /\ PoolUnchanged

\* Thread t, inside stop, has joined every worker and returns.
PoolStopReturn(t) ==
    /\ threadPool.constructed /\ threadPool.callers[t].pc = "stop"
    /\ stop_joined(threadPool)
    /\ threadPool' = [threadPool EXCEPT !.callers[t] = [pc |-> "idle", task |-> 0]]
    /\ hist' = [hist EXCEPT !.stop_returned = TRUE]
    /\ last' = [op |-> "stop returns", thread |-> t]
    /\ PoolUnchanged

\* Worker w leaves condition_.wait: it returns or takes a task.
PoolWorkerTake(w) ==
    /\ threadPool.constructed /\ w \in DOMAIN threadPool.workers_
    /\ threadPool.workers_[w].pc = "wait"
    /\ worker_ready(threadPool)
    /\ threadPool' = worker_take(threadPool, w)
    /\ last' = [op |-> "worker", worker |-> w,
                task |-> threadPool'.workers_[w].task]
    /\ UNCHANGED hist
    /\ PoolUnchanged

\* Worker w has run its task and goes back to the wait.
PoolWorkerRun(w) ==
    /\ threadPool.constructed /\ w \in DOMAIN threadPool.workers_
    /\ threadPool.workers_[w].pc = "run"
    /\ threadPool' = [threadPool EXCEPT !.workers_[w] = [pc |-> "wait", task |-> 0]]
    /\ hist' = [hist EXCEPT !.finished[threadPool.workers_[w].task] = @ + 1]
    /\ last' = [op |-> "task", worker |-> w, task |-> threadPool.workers_[w].task]
    /\ PoolUnchanged

NextPool ==
    \/ \E num_threads \in 0..MaxWorkers, hardware_concurrency \in 0..MaxWorkers :
         PoolConstruct(num_threads, hardware_concurrency)
    \/ \E t \in Threads : PoolEnqueue(t)
    \/ \E t \in Threads : PoolEnqueuePush(t)
    \/ \E t \in Threads : PoolStop(t)
    \/ \E t \in Threads : PoolStopReturn(t)
    \/ \E w \in 1..MaxWorkers : PoolWorkerTake(w)
    \/ \E w \in 1..MaxWorkers : PoolWorkerRun(w)

SpecPool == Init /\ [][NextPool]_vars

\* C31: no task runs twice; once a stop call that joined the workers has
\* returned, every worker has exited and every task that enqueue pushed to
\* the queue has run to its end exactly once; a task passed to enqueue
\* after that return never runs.
C31_EveryTaskOnce ==
    threadPool.constructed =>
      /\ \A k \in Tasks : hist.finished[k] <= 1
      /\ hist.stop_returned =>
           /\ stop_joined(threadPool)
           /\ \A k \in hist.pushed : hist.finished[k] = 1
      /\ \A k \in hist.after_stop :
           k \notin hist.pushed /\ hist.finished[k] = 0

\* The part of C31 that holds: no task runs twice, a task passed after
\* stop returned is dropped, and the workers have exited by then.
PoolStopJoinsWorkers ==
    threadPool.constructed =>
      /\ \A k \in Tasks : hist.finished[k] <= 1
      /\ hist.stop_returned => stop_joined(threadPool)
      /\ \A k \in hist.after_stop :
           k \notin hist.pushed /\ hist.finished[k] = 0

\*****************************************************************************
\* ConcurrentHashTable (compressed_trie.h 66-140, interval_tree.cpp 352-596)
\*
\* SpecHash: one thread calls insert, remove and lookup on one table. A key
\* is a number from 1; 0 is the empty string of a default TableEntry. The
\* std::hash of the build is chosen when the table is constructed.
\* hist.stored is the value of the latest insert of each key (0: never
\* inserted, or removed since); hist.full says that an insert has left
\* every slot of the table in use.
\*****************************************************************************

\* The largest initial_size in the model.
MaxCapacity == 3

\* The keys and the values of the model.
MaxKeys == 2

HashKeys == 1..MaxKeys

HashValues == 1..2

\* The capacity the constructor sets.
DefaultCapacity == 1024

TableEntry == [key |-> 0, value |-> -1, in_use |-> FALSE]

ConcurrentHashTable(initial_size, std_hash) ==
    LET capacity == IF initial_size = 0 THEN DefaultCapacity ELSE initial_size
    IN  [constructed |-> TRUE, capacity |-> capacity, current_size |-> 0,
         table |-> [i \in 0..capacity - 1 |-> TableEntry],
         std_hash |-> std_hash]

hashFunction(ht, key) == ht.std_hash[key]

\* The probe loop of lookup from probe_distance on.
RECURSIVE lookupProbe(_, _, _, _)
lookupProbe(ht, key, initial_index, probe_distance) ==
    LET current_index == (initial_index + probe_distance) % ht.capacity
        e == ht.table[current_index]
        next_index == (initial_index + probe_distance + 1) % ht.capacity
    IN  IF e.in_use /\ e.key = key
        THEN [found |-> TRUE, value |-> e.value]
        ELSE IF probe_distance + 1 >= ht.capacity \/ next_index = initial_index
        THEN [found |-> FALSE, value |-> 0]
        ELSE lookupProbe(ht, key, initial_index, probe_distance + 1)

ConcurrentHashTable_lookup(ht, key) ==
    lookupProbe(ht, key, hashFunction(ht, key) % ht.capacity, 0)

\* The probe loop of insert from probe_distance on: the slots are claimed
\* in probe order, a slot in use is compared with the key.
RECURSIVE insertProbe(_, _, _, _, _)
insertProbe(ht, key, value, initial_index, probe_distance) ==
    LET current_index == (initial_index + probe_distance) % ht.capacity
        e == ht.table[current_index]
    IN  IF ~e.in_use
        THEN [ht EXCEPT !.table[current_index] =
                            [key |-> key, value |-> value, in_use |-> TRUE],
                        !.current_size = @ + 1]
        ELSE IF e.key = key
        THEN [ht EXCEPT !.table[current_index].value = value]
        ELSE IF probe_distance + 1 >= ht.capacity
        THEN ht
        ELSE insertProbe(ht, key, value, initial_index, probe_distance + 1)

ConcurrentHashTable_insert(ht, key, value) ==
    insertProbe(ht, key, value, hashFunction(ht, key) % ht.capacity, 0)

\* The probe loop of remove from probe_distance on: it ends at the key, at
\* a slot that is not in use, or after capacity slots.
RECURSIVE removeProbe(_, _, _, _)
removeProbe(ht, key, initial_index, probe_distance) ==
    LET current_index == (initial_index + probe_distance) % ht.capacity
        e == ht.table[current_index]
        next_index == (initial_index + probe_distance + 1) % ht.capacity
    IN  IF e.in_use /\ e.key = key
        THEN [ht |-> [ht EXCEPT !.table[current_index].in_use = FALSE,
                                !.current_size = @ - 1],
              ret |-> TRUE]
        ELSE IF ~e.in_use
        THEN [ht |-> ht, ret |-> FALSE]
        ELSE IF probe_distance + 1 >= ht.capacity \/ next_index = initial_index
        THEN [ht |-> ht, ret |-> FALSE]
        ELSE removeProbe(ht, key, initial_index, probe_distance + 1)

ConcurrentHashTable_remove(ht, key) ==
    removeProbe(ht, key, hashFunction(ht, key) % ht.capacity, 0)

HashUnchanged ==
    UNCHANGED <<baseVars, bloomFilter, intervalTree, compressedTrie,
                rcuState, threadPool, memoryPool>>

\* Every slot of the table is in use.
TableFull(ht) == \A i \in DOMAIN ht.table : ht.table[i].in_use

HashConstruct(initial_size, std_hash) ==
    /\ ~hashTable.constructed
    /\ hashTable' = ConcurrentHashTable(initial_size, std_hash)
    /\ hist' = [stored |-> [k \in HashKeys |-> 0], full |-> FALSE]
    /\ last' = [op |-> "ConcurrentHashTable", initial_size |-> initial_size]
    /\ HashUnchanged

HashInsert(key, value) ==
    /\ hashTable.constructed
    /\ hashTable' = ConcurrentHashTable_insert(hashTable, key, value)
    /\ hist' = [hist EXCEPT !.stored[key] = value,
                            !.full = @ \/ TableFull(hashTable')]
    /\ last' = [op |-> "insert", key |-> key, value |-> value]
    /\ HashUnchanged

HashRemove(key) ==
    /\ hashTable.constructed
    /\ LET r == ConcurrentHashTable_remove(hashTable, key)
       IN  /\ hashTable' = r.ht
           /\ last' = [op |-> "remove", key |-> key, ret |-> r.ret,
                       present |-> hist.stored[key] # 0]
    /\ hist' = [hist EXCEPT !.stored[key] = 0]
    /\ HashUnchanged

HashLookup(key) ==
    /\ hashTable.constructed
    /\ last' = [op |-> "lookup", key |-> key,
                ret |-> ConcurrentHashTable_lookup(hashTable, key)]
    /\ UNCHANGED <<hashTable, hist>>
    /\ HashUnchanged

NextHash ==
    \/ \E initial_size \in 1..MaxCapacity, std_hash \in [HashKeys -> 0..MaxStdHash] :
         HashConstruct(initial_size, std_hash)
    \/ \E key \in HashKeys, value \in HashValues : HashInsert(key, value)
    \/ \E key \in HashKeys : HashRemove(key)
    \/ \E key \in HashKeys : HashLookup(key)

SpecHash == Init /\ [][NextHash]_vars

\* C32: on a table that was never full, lookup(k) succeeds exactly
\* when k was inserted and not removed since and then yields the value of
\* its latest insert, no key is held by two slots in use, and remove(k)
\* returned true exactly when k was present.
C32_TableIsAMap ==
    (hashTable.constructed /\ ~hist.full) =>
      /\ \A k \in HashKeys :
           LET r == ConcurrentHashTable_lookup(hashTable, k)
           IN  /\ r.found = (hist.stored[k] # 0)
               /\ r.found => r.value = hist.stored[k]
      /\ \A k \in HashKeys :
           Cardinality({i \in DOMAIN hashTable.table :
                          hashTable.table[i].in_use
                            /\ hashTable.table[i].key = k}) <= 1
      /\ last.op = "remove" => last.ret = last.present

\* C33: every callback queued with callRcu is either still in
\* deferred_callbacks, once, or has run, once: none runs twice and none is
\* dropped, whichever threads queue and process; right after
\* processRcuCallbacks, alone or inside synchronizeRcu, the list is empty;
\* and rcu_global_epoch is its initial value plus the number of
\* synchronizeRcu calls.
C33_CallbacksRunOnce ==
    rcuState.constructed =>
      /\ \A k \in 1..MaxCallbacks :
           hist.ran[k] + CountOf(rcuState.deferred_callbacks, k) =
             IF k <= hist.queued THEN 1 ELSE 0
      /\ last.op \in {"processRcuCallbacks", "synchronizeRcu returns"} =>
           rcuState.deferred_callbacks = <<>>
      /\ rcuState.rcu_global_epoch = 1 + hist.syncs

\* Two callbacks were queued; the first ran in an earlier
\* processRcuCallbacks, the second in a synchronizeRcu that returns while
\* another thread is inside its own synchronizeRcu.
C33_Witness ==
    /\ rcuState.constructed
    /\ last.op = "synchronizeRcu returns" /\ last.ran = <<2>>
    /\ hist.ran[1] = 1 /\ hist.ran[2] = 1
    /\ hist.syncs = 2
    /\ \E t \in Threads : InSynchronize(t)

\*****************************************************************************
\* MemoryPool (memory_pool.h, part_004 126-263)
\*
\* SpecMem: one thread calls allocate, deallocate, grow and getUsedCount on
\* one pool. An object slot is known by its number in the order in which
\* addNewBlock linked the slots; 0 is the null pointer. free_list is the
\* chain from free_list_head, head first. hist.live is the pointers that
\* allocate returned and that were not deallocated since, in the order of
\* their allocation.
\*****************************************************************************

\* The largest total capacity of the pool in the model.
MaxPoolCapacity == 4

\* The objects added by allocate to a pool without capacity.
DefaultGrowth == 1024

NullPtr == 0

\* addNewBlock: the slots of the new block are pushed on the free list in
\* address order; block_ok says that the memory of the block was granted.
addNewBlock(pool, num_objects_in_block, block_ok) ==
    IF num_objects_in_block = 0 THEN [pool |-> pool, ret |-> TRUE]
    ELSE IF ~block_ok THEN [pool |-> pool, ret |-> FALSE]
    ELSE [pool |->
            [pool EXCEPT
               !.free_list =
                  [i \in 1..num_objects_in_block |->
                     pool.current_capacity_objects + num_objects_in_block + 1 - i]
                  \o @,
               !.current_capacity_objects = @ + num_objects_in_block],
          ret |-> TRUE]

\* The constructor, for object_size and initial_capacity above 0 and a
\* first block that was granted.
MemoryPool(initial_capacity) ==
    addNewBlock([constructed |-> TRUE, current_capacity_objects |-> 0,
                 free_list |-> <<>>], initial_capacity, TRUE).pool

\* allocate without the step to the next free object.
MemoryPool_allocate_noPop(pool, block_ok) ==
    [pool |-> pool, threw |-> pool.free_list = <<>>,
     ptr |-> IF pool.free_list = <<>> THEN NullPtr ELSE Head(pool.free_list)]

\* allocate: the pool it leaves, the pointer it returns, and whether it
\* threw std::bad_alloc.
MemoryPool_allocate(pool, block_ok) ==
    LET objects_to_add == IF pool.current_capacity_objects > 0
                          THEN pool.current_capacity_objects
                          ELSE DefaultGrowth
        grown == IF pool.free_list = <<>>
                 THEN addNewBlock(pool, objects_to_add, block_ok)
                 ELSE [pool |-> pool, ret |-> TRUE]
    IN  IF ~grown.ret \/ grown.pool.free_list = <<>>
        THEN [pool |-> pool, threw |-> TRUE, ptr |-> NullPtr]
        ELSE [pool |-> [grown.pool EXCEPT !.free_list = Tail(@)],
              threw |-> FALSE,
              ptr |-> Head(grown.pool.free_list)]

MemoryPool_deallocate(pool, ptr) ==
    IF ptr = NullPtr THEN pool
    ELSE [pool EXCEPT !.free_list = <<ptr>> \o @]

\* getUsedCount: the capacity less the length of the free list.
getUsedCount(pool) == pool.current_capacity_objects - Len(pool.free_list)

MemoryPool_grow(pool, additional_objects, block_ok) ==
    addNewBlock(pool, additional_objects, block_ok)

MemUnchanged ==
    UNCHANGED <<baseVars, bloomFilter, intervalTree, compressedTrie,
                rcuState, threadPool, hashTable>>

\* The sequence s without its element at index i.
Without(s, i) == [j \in 1..Len(s) - 1 |-> IF j < i THEN s[j] ELSE s[j + 1]]

MemConstruct(initial_capacity) ==
    /\ ~memoryPool.constructed
    /\ memoryPool' = MemoryPool(initial_capacity)
    /\ hist' = [live |-> <<>>]
    /\ last' = [op |-> "MemoryPool", initial_capacity |-> initial_capacity]
    /\ MemUnchanged

MemAllocate(block_ok) ==
    /\ memoryPool.constructed
    /\ memoryPool.free_list = <<>> =>
         2 * memoryPool.current_capacity_objects <= MaxPoolCapacity
    /\ LET r == MemoryPool_allocate(memoryPool, block_ok)
       IN  /\ memoryPool' = r.pool
           /\ hist' = [hist EXCEPT !.live = IF r.threw THEN @ ELSE Append(@, r.ptr)]
           /\ last' = [op |-> "allocate", ptr |-> r.ptr, threw |-> r.threw,
                       exhausted |-> memoryPool.free_list = <<>>,
                       capacity |-> memoryPool.current_capacity_objects]
    /\ MemUnchanged

\* deallocate of the live pointer at index i of hist.live.
MemDeallocate(i) ==
    /\ memoryPool.constructed /\ i \in 1..Len(hist.live)
    /\ memoryPool' = MemoryPool_deallocate(memoryPool, hist.live[i])
    /\ hist' = [hist EXCEPT !.live = Without(@, i)]
    /\ last' = [op |-> "deallocate", ptr |-> hist.live[i]]
    /\ MemUnchanged

MemDeallocateNull ==
    /\ memoryPool.constructed
    /\ memoryPool' = MemoryPool_deallocate(memoryPool, NullPtr)
    /\ last' = [op |-> "deallocate", ptr |-> NullPtr]
    /\ UNCHANGED hist
    /\ MemUnchanged

MemGrow(additional_objects, block_ok) ==
    /\ memoryPool.constructed
    /\ memoryPool.current_capacity_objects + additional_objects <= MaxPoolCapacity
    /\ LET r == MemoryPool_grow(memoryPool, additional_objects, block_ok)
       IN  /\ memoryPool' = r.pool
           /\ last' = [op |-> "grow", additional_objects |-> additional_objects,
                       ret |-> r.ret,
                       capacity |-> memoryPool.current_capacity_objects,
                       used |-> getUsedCount(memoryPool)]
    /\ UNCHANGED hist
    /\ MemUnchanged

MemGetUsedCount ==
    /\ memoryPool.constructed
    /\ last' = [op |-> "getUsedCount", ret |-> getUsedCount(memoryPool)]
    /\ UNCHANGED <<memoryPool, hist>>
    /\ MemUnchanged

NextMem ==
    \/ \E initial_capacity \in 1..MaxPoolCapacity : MemConstruct(initial_capacity)
    \/ \E block_ok \in BOOLEAN : MemAllocate(block_ok)
    \/ \E i \in 1..MaxPoolCapacity : MemDeallocate(i)
    \/ MemDeallocateNull
    \/ \E additional_objects \in 0..MaxPoolCapacity, block_ok \in BOOLEAN :
         MemGrow(additional_objects, block_ok)
    \/ MemGetUsedCount

SpecMem == Init /\ [][NextMem]_vars

C35_InvertedRejected ==
    [][/\ (TreeAlive /\ last'.op = "insert"
             /\ last'.interval.low > last'.interval.high) =>
            /\ intervalTree' = intervalTree
            /\ \A point \in TreePoints :
                 findOverlappingPoint(intervalTree'.root, point) =
                   findOverlappingPoint(intervalTree.root, point)
            /\ \A low \in TreePoints, high \in TreePoints :
                 findOverlappingIntervals(intervalTree'.root, low, high) =
                   findOverlappingIntervals(intervalTree.root, low, high)
       /\ (TreeAlive /\ last'.op = "findRange" /\ last'.low > last'.high) =>
            last'.ret = <<>>]_vars

\* An interval with low > high was passed to insert on a tree of two nodes.
C35_Witness ==
    /\ TreeAlive
    /\ last.op = "insert" /\ last.interval.low > last.interval.high
    /\ TreeSize(intervalTree.root) = 2

\*****************************************************************************
\* BloomFilter(num_items, false_positive_prob) (bloom_filter.cpp 5-54)
\*
\* SpecParams: the constructor is called with every item count up to
\* MaxItems and each of the probabilities below. A probability is written
\* in millionths. The doubles of calculateOptimalParams are computed in
\* thousandths: NegLogOverLn2Sq(p) is -ln(p) / ln(2)^2 and Ln2 is ln(2),
\* both times 1000; CeilDiv is std::ceil of a quotient. For the inputs of
\* the model the results are those of the compiled function.
\*****************************************************************************

\* The largest num_items in the model.
MaxItems == 20

\* false_positive_prob, in millionths: below 0, 0, inside (0, 1), 1, above 1.
Probabilities == {-500000, 0, 1, 10000, 500000, 900000, 1000000, 1500000}

\* 1000 * -ln(p) / ln(2)^2 for the probabilities inside (0, 1).
NegLogOverLn2Sq(p) ==
    CASE p = 1 -> 28755
      [] p = 10000 -> 9585
      [] p = 500000 -> 1443
      [] p = 900000 -> 219

\* 1000 * ln(2)
Ln2 == 693

CeilDiv(a, b) == (a + b - 1) \div b

\* BloomFilter::calculateOptimalParams: out_size and out_num_hashes.
calculateOptimalParams(num_items, false_positive_prob) ==
    IF num_items = 0 \/ false_positive_prob <= 0 \/ false_positive_prob >= 1000000
    THEN IF num_items = 0 /\ false_positive_prob > 0 /\ false_positive_prob < 1000000
         THEN LET size == CeilDiv(NegLogOverLn2Sq(false_positive_prob), 1000)
                  out_size == IF size = 0 THEN 100 ELSE size
                  hashes == CeilDiv(out_size * Ln2, 1000)
              IN  [out_size |-> out_size,
                   out_num_hashes |-> IF hashes = 0 THEN 1 ELSE hashes]
         ELSE [out_size |-> 1024, out_num_hashes |-> 3]
    ELSE LET size == CeilDiv(num_items * NegLogOverLn2Sq(false_positive_prob), 1000)
             hashes == CeilDiv(size * Ln2, 1000 * num_items)
         IN  [out_size |-> IF size = 0 THEN 100 ELSE size,
              out_num_hashes |-> IF hashes = 0 THEN 1
                                 ELSE IF hashes > 16 THEN 16 ELSE hashes]

\* BloomFilter::BloomFilter(uint64_t num_items, double false_positive_prob)
BloomFilter_optimal(num_items, false_positive_prob) ==
    LET params == calculateOptimalParams(num_items, false_positive_prob)
    IN  [constructed |-> TRUE,
         bit_array_size |-> IF params.out_size = 0 THEN 1024 ELSE params.out_size,
         num_hash_functions |-> params.out_num_hashes,
         bit_array |-> {},
         current_insertions |-> 0]

ParamsConstruct(num_items, false_positive_prob) ==
    /\ ~bloomFilter.constructed
    /\ bloomFilter' = BloomFilter_optimal(num_items, false_positive_prob)
    /\ last' = [op |-> "BloomFilter", num_items |-> num_items,
                false_positive_prob |-> false_positive_prob]
    /\ UNCHANGED hist
    /\ BloomUnchanged

NextParams ==
    \E num_items \in 0..MaxItems, false_positive_prob \in Probabilities :
       ParamsConstruct(num_items, false_positive_prob)

SpecParams == Init /\ [][NextParams]_vars

\* C36: whatever item count and probability the constructor is given, the
\* filter has between 1 and 16 hash functions and at least 100 bits.
C36_ParamsClamped ==
    bloomFilter.constructed =>
      /\ bloomFilter.num_hash_functions >= 1
      /\ bloomFilter.num_hash_functions <= 16
      /\ bloomFilter.bit_array_size >= 100

\* What holds of the constructed filter: at least one hash function and at
\* least one bit, and at most 16 hash functions when num_items is not 0.
ParamsArePositive ==
    bloomFilter.constructed =>
      /\ bloomFilter.num_hash_functions >= 1
      /\ bloomFilter.bit_array_size >= 1
      /\ last.num_items > 0 => bloomFilter.num_hash_functions <= 16

\* ---------------------------------------- the shape of the IntervalTree

\* The height of a tree, counted from its nodes.
RECURSIVE RealHeight(_)
RealHeight(node) ==
    IF IsNil(node) THEN 0
    ELSE 1 + Max(RealHeight(node.left), RealHeight(node.right))

\* Every node is balanced and stores its height.
RECURSIVE IsAVL(_)
IsAVL(node) ==
    \/ IsNil(node)
    \/ /\ RealHeight(node.left) - RealHeight(node.right) \in -1..1
       /\ node.height = 1 + Max(RealHeight(node.left), RealHeight(node.right))
       /\ IsAVL(node.left)
       /\ IsAVL(node.right)

\* The intervals of a tree in the order of an in-order walk.
RECURSIVE InOrder(_)
InOrder(node) ==
    IF IsNil(node) THEN <<>>
    ELSE InOrder(node.left) \o <<node.interval>> \o InOrder(node.right)

SortedByLow(s) == \A n \in 1..Len(s) - 1 : s[n].low <= s[n + 1].low

\* The largest high among the intervals of a tree that is not empty.
RECURSIVE RealMaxHigh(_)
RealMaxHigh(node) ==
    LET l == IF IsNil(node.left) THEN node.interval.high
             ELSE Max(node.interval.high, RealMaxHigh(node.left))
    IN  IF IsNil(node.right) THEN l ELSE Max(l, RealMaxHigh(node.right))

\* Every node stores the largest high of its subtree.
RECURSIVE MaxHighRight(_)
MaxHighRight(node) ==
    \/ IsNil(node)
    \/ /\ node.max_high = RealMaxHigh(node)
       /\ MaxHighRight(node.left)
       /\ MaxHighRight(node.right)

\* C37: after every insert and remove the tree is a height-balanced AVL
\* tree (the subtrees of every node differ in height by at most 1, every
\* node stores 1 plus the larger height of its children) and its in-order
\* walk is sorted by low, whatever the order of the inserts and also for
\* intervals that share a low.
C37_HeightBalanced ==
    TreeAlive =>
      /\ IsAVL(intervalTree.root)
      /\ SortedByLow(InOrder(intervalTree.root))

\* What holds of the shape: every node stores its height, and the in-order
\* walk is sorted by low.
HeightsAndOrderRight ==
    TreeAlive =>
      /\ intervalTree.root.height = RealHeight(intervalTree.root)
      /\ SortedByLow(InOrder(intervalTree.root))

\* C38: insertRecursive reads the bounds of the new interval only through
\* a pointer that owns it: no insert, also none that unbalances a node,
\* depends on what a read through the moved-from pointer gives.
C38_NoReadAfterMove ==
    [][(TreeAlive /\ last'.op = "insert") =>
         \A null_read \in NullReads :
            IntervalTree_insert(intervalTree.root, last'.interval, null_read)
              = intervalTree'.root]_vars

\* C39: after every insert and remove, rotations and the replacement by
\* the successor included, every node's max_high is the largest high of
\* the intervals in its subtree.
C39_MaxHighIsSubtreeMax ==
    TreeAlive => MaxHighRight(intervalTree.root)

\* The root of a balanced tree of four nodes, with two children and a left
\* child that has only a right child, was removed: the successor replaced
\* it and a double rotation brought up another root.
C39_Witness ==
    /\ TreeAlive
    /\ last.op = "remove"
    /\ IsAVL(last.before) /\ TreeSize(last.before) = 4
    /\ last.before.interval = last.interval
    /\ ~IsNil(last.before.left) /\ ~IsNil(last.before.right)
    /\ IsNil(last.before.left.left) /\ ~IsNil(last.before.left.right)
    /\ TreeSize(intervalTree.root) = 3
    /\ intervalTree.root.interval = last.before.left.right.interval

\* ------------------------------------------ SpecWake: the waits and the
\* notifications of one ReadWriteLock. The threads call readLock,
\* tryReadLock, writeLock, readUnlock and writeUnlock on rw_lock_; a thread
\* calls a lock function only while it holds nothing (or, for writeLock,
\* the write lock), and releases what it holds. Each
\* function runs under mutex_, so each is one step up to its wait. For a
\* thread t inside reader_cv_.wait or writer_cv_.wait (op[t] is "readLock"
\* or "writeLock"), waiting[t] says that it is blocked on the condition
\* variable; a notification unblocks it, and it then tests the predicate of
\* the wait again under mutex_.

\* The threads blocked on reader_cv_ and on writer_cv_.
BlockedOn(cv) == {u \in Threads : op[u] = cv /\ waiting[u]}

\* std::condition_variable::notify_one: the sets of threads it may unblock
\* (one of the blocked threads, or none when none is blocked).
notify_one(cv) ==
    IF BlockedOn(cv) = {} THEN {{}} ELSE {{u} : u \in BlockedOn(cv)}

\* std::condition_variable::notify_all.
notify_all(cv) == {BlockedOn(cv)}

\* The threads in woken are unblocked.
Unblock(woken) ==
    waiting' = [u \in Threads |-> IF u \in woken THEN FALSE ELSE waiting[u]]

\* ReadWriteLock::readUnlock: the notifications after the count is lowered.
readUnlock_notify(l) ==
    IF l.active_readers_ = 0 /\ l.waiting_writers_ > 0
    THEN notify_one("writeLock") ELSE {{}}

\* ReadWriteLock::writeUnlock: the notifications once the lock is free.
writeUnlock_notify(l) ==
    IF l.writer_active_ THEN {{}}
    ELSE IF l.waiting_writers_ > 0 THEN notify_one("writeLock")
    ELSE notify_all("readLock")

HoldsNothing(t) == hist[t].reads = 0 /\ hist[t].writes = 0

\* Thread t calls readLock: it returns, or blocks on reader_cv_.
WakeReadLock(t) ==
    /\ Idle(t) /\ HoldsNothing(t)
    /\ IF readLock_ready(TheLock)
       THEN /\ SetLock(readLock(TheLock))
            /\ hist' = [hist EXCEPT ![t].reads = @ + 1]
            /\ UNCHANGED <<op, waiting>>
       ELSE /\ op' = [op EXCEPT ![t] = "readLock"]
            /\ waiting' = [waiting EXCEPT ![t] = TRUE]
            /\ UNCHANGED <<locks, hist>>
    /\ last' = [op |-> "readLock", thread |-> t]
    /\ RWUnchanged

\* Thread t calls tryReadLock.
WakeTryReadLock(t, owns) ==
    /\ Idle(t) /\ HoldsNothing(t)
    /\ LET r == tryReadLock(TheLock, owns)
       IN  /\ SetLock(r.l)
           /\ hist' = [hist EXCEPT ![t].reads = IF r.ret THEN @ + 1 ELSE @]
           /\ last' = [op |-> "tryReadLock", thread |-> t, owns |-> owns,
                       ret |-> r.ret]
    /\ UNCHANGED <<op, waiting>>
    /\ RWUnchanged

\* Thread t calls writeLock, holding nothing or the write lock already: it
\* returns, or blocks on writer_cv_.
WakeWriteLock(t) ==
    /\ Idle(t) /\ hist[t].reads = 0 /\ hist[t].writes < MaxHold
    /\ LET w == writeLock(TheLock, t)
       IN  /\ SetLock(w.l)
           /\ IF w.done
              THEN /\ hist' = [hist EXCEPT ![t].writes = @ + 1]
                   /\ UNCHANGED <<op, waiting>>
              ELSE /\ op' = [op EXCEPT ![t] = "writeLock"]
                   /\ waiting' = [waiting EXCEPT ![t] = TRUE]
                   /\ UNCHANGED hist
    /\ last' = [op |-> "writeLock", thread |-> t]
    /\ RWUnchanged

\* Thread t calls readUnlock for the read lock it holds.
WakeReadUnlock(t) ==
    /\ Idle(t) /\ hist[t].reads > 0
    /\ SetLock(readUnlock(TheLock))
    /\ \E woken \in readUnlock_notify(readUnlock(TheLock)) : Unblock(woken)
    /\ hist' = [hist EXCEPT ![t].reads = @ - 1]
    /\ last' = [op |-> "readUnlock", thread |-> t]
    /\ UNCHANGED op
    /\ RWUnchanged

\* Thread t calls writeUnlock for the write lock it holds.
WakeWriteUnlock(t) ==
    /\ Idle(t) /\ hist[t].writes > 0
    /\ SetLock(writeUnlock(TheLock, t))
    /\ \E woken \in writeUnlock_notify(writeUnlock(TheLock, t)) :
           Unblock(woken)
    /\ hist' = [hist EXCEPT ![t].writes = @ - 1]
    /\ last' = [op |-> "writeUnlock", thread |-> t]
    /\ UNCHANGED op
    /\ RWUnchanged

\* Thread t, unblocked, tests the predicate of its wait: the call returns
\* with the lock, or the thread blocks again.
WakeRetest(t) ==
    /\ hist # <<>> /\ op[t] \in {"readLock", "writeLock"} /\ ~waiting[t]
    /\ LET ready == IF op[t] = "readLock" THEN readLock_ready(TheLock)
                    ELSE writeLock_ready(TheLock)
       IN  IF ready
           THEN /\ SetLock(IF op[t] = "readLock" THEN readLock(TheLock)
                           ELSE writeLock_wake(TheLock, t))
                /\ hist' = [hist EXCEPT
                              ![t].reads = IF op[t] = "readLock"
                                           THEN @ + 1 ELSE @,
                              ![t].writes = IF op[t] = "writeLock"
                                            THEN @ + 1 ELSE @]
                /\ op' = [op EXCEPT ![t] = "idle"]
                /\ UNCHANGED waiting
           ELSE /\ waiting' = [waiting EXCEPT ![t] = TRUE]
                /\ UNCHANGED <<locks, hist, op>>
    /\ last' = [op |-> "wait", thread |-> t, was |-> op[t]]
    /\ RWUnchanged

\* A spurious wake-up of thread t, which wait(lock, pred) allows.
WakeSpurious(t) ==
    /\ hist # <<>> /\ op[t] \in {"readLock", "writeLock"} /\ waiting[t]
    /\ waiting' = [waiting EXCEPT ![t] = FALSE]
    /\ last' = [op |-> "spurious wake-up", thread |-> t]
    /\ UNCHANGED <<locks, hist, op>>
    /\ RWUnchanged

NextWake ==
    \/ RWConstruct
    \/ \E t \in Threads : WakeReadLock(t)
    \/ \E t \in Threads, owns \in BOOLEAN : WakeTryReadLock(t, owns)
    \/ \E t \in Threads : WakeWriteLock(t)
    \/ \E t \in Threads : WakeReadUnlock(t)
    \/ \E t \in Threads : WakeWriteUnlock(t)
    \/ \E t \in Threads : WakeRetest(t)
    \/ \E t \in Threads : WakeSpurious(t)

\* Every holder releases in the end, and an unblocked thread runs in the
\* end; nothing makes a thread call a lock function, and nothing promises
\* a spurious wake-up.
WakeFairness ==
    \A t \in Threads :
        /\ WF_vars(WakeReadUnlock(t))
        /\ WF_vars(WakeWriteUnlock(t))
        /\ WF_vars(WakeRetest(t))

SpecWake == Init /\ [][NextWake]_vars /\ WakeFairness

InWriteLock(t) == hist # <<>> /\ op[t] = "writeLock"

InReadLock(t) == hist # <<>> /\ op[t] = "readLock"

HoldsWrite(t) == hist # <<>> /\ hist[t].writes > 0

HoldsRead(t) == hist # <<>> /\ hist[t].reads > 0

\* No thread holds the write lock or waits in writeLock.
NoWriter == ~TheLock.writer_active_ /\ TheLock.waiting_writers_ = 0

\* A step admits a reader.
ReaderAdmitted == \E t \in Threads : hist # <<>> /\ hist'[t].reads > hist[t].reads

\* While a thread waits in writeLock no reader is admitted.
NoReaderPastWaitingWriter ==
    [][ReaderAdmitted => \A t \in Threads : ~InWriteLock(t)]_vars

\* Every holder releases in the end: each thread holds nothing again and
\* again.
EveryHolderReleases ==
    \A u \in Threads : []<>(hist = <<>> \/ HoldsNothing(u))

\* Every holder releasing in the end, a thread that waits in writeLock
\* gets the lock in the end.
WriterGetsLock ==
    EveryHolderReleases => \A t \in Threads : InWriteLock(t) ~> HoldsWrite(t)

\* Every holder releasing in the end, a thread that waits in readLock gets
\* the lock in the end, when from some time on no writer is active or
\* waiting.
ReaderGetsLock ==
    (EveryHolderReleases /\ <>[]NoWriter)
        => \A t \in Threads : InReadLock(t) ~> HoldsRead(t)

\* A thread that waits in writeLock gets the lock in the end when the other
\* threads call only readLock and readUnlock.
WriterNotStarvedByReaders ==
    \A t \in Threads :
        (/\ EveryHolderReleases
         /\ [](\A u \in Threads \ {t} : ~InWriteLock(u) /\ ~HoldsWrite(u)))
            => (InWriteLock(t) ~> HoldsWrite(t))

\* A notification is never lost: a thread blocked in writeLock has the lock
\* held by another thread, or another thread unblocked and about to test
\* its predicate; a thread blocked in readLock has a writer active or
\* waiting.
NoLostWakeup ==
    hist # <<>> =>
        \A t \in Threads :
            /\ (op[t] = "writeLock" /\ waiting[t]) =>
                   \/ \E u \in Threads \ {t} : hist[u].reads > 0 \/ hist[u].writes > 0
                   \/ \E u \in Threads \ {t} : op[u] = "writeLock" /\ ~waiting[u]
            /\ (op[t] = "readLock" /\ waiting[t]) => ~NoWriter

\* C40: once a thread waits in writeLock no reader is admitted before a
\* writer has held the lock, and, every holder releasing in the end, every
\* thread waiting in writeLock gets the lock in the end however many readers
\* arrive, and every thread waiting in readLock gets it in the end once no
\* writer is active or waiting.
C40_NoStarvation ==
    /\ NoReaderPastWaitingWriter
    /\ WriterGetsLock
    /\ ReaderGetsLock

====
